---- MODULE Spec2Model ----
(***************************************************************************)
(* A model of three parts of the engine:                                   *)
(*   - the terrain editing commands of the editor                          *)
(*     (editor/src/scene/commands/terrain.rs),                             *)
(*   - the animation track values and their bindings                       *)
(*     (src/animation/value.rs),                                           *)
(*   - the scene node container (src/scene/node/mod.rs).                   *)
(* Every part has its own variables and its own specification; the         *)
(* variables of the other parts stay at their idle value.                  *)
(***************************************************************************)
EXTENDS Integers, Sequences, FiniteSets, TLC

(***************************************************************************)
(* Bounds of the model.                                                    *)
(***************************************************************************)
\* The largest number of terrain chunks, and of per-chunk snapshots a
\* command is built with.
MaxChunks == 2

(***************************************************************************)
(* Helpers.                                                                *)
(***************************************************************************)
Min(a, b) == IF a < b THEN a ELSE b

\* All sequences over S of length at most n.
SeqUpTo(S, n) == UNION {[1..k -> S] : k \in 0..n}

\* Vec::remove(i) and Vec::insert(i, x), with 1-based positions.
RemoveAt(s, i) == [k \in 1..(Len(s) - 1) |-> IF k < i THEN s[k] ELSE s[k + 1]]

InsertAt(s, i, x) ==
    [k \in 1..(Len(s) + 1) |-> IF k < i THEN s[k] ELSE IF k = i THEN x ELSE s[k - 1]]

(***************************************************************************)
(* ModifyTerrainHeightCommand.                                             *)
(***************************************************************************)
VARIABLES
    terrain_heightmaps, \* the heightmap of every chunk of the terrain
    old_heightmaps,     \* the command's field old_heightmaps
    new_heightmaps,     \* the command's field new_heightmaps
    hCall,              \* the last call: "none", "execute" or "revert"
    hAlternating,       \* the calls so far were execute, revert, execute, ...
    hBuilt              \* the terrain and the two arguments of new()

heightVars ==
    <<terrain_heightmaps, old_heightmaps, new_heightmaps, hCall, hAlternating, hBuilt>>

VARIABLES
    terrain_layers, \* the terrain's layers, in order, each with its mask
                    \* textures (one per chunk)
    layer_chunks,   \* the number of chunks of the terrain
    cmds,           \* the commands created so far
    next_layer,     \* the identity the next constructed Layer gets
    next_texture,   \* the identity the next created mask texture gets
    lPanicked,      \* a call has panicked
    lCall,          \* the last call: [cmd, op], cmd = 0 before the first one
    lPrev,          \* the call before the last one
    lBefore,        \* the terrain's layers before the last call
    lStack,         \* the commands executed and not reverted, in order
    lLinear,        \* every execute so far was of a command not on lStack
                    \* and every revert of the top of lStack, none panicked
    lSolo,          \* the only command called so far, 0: none, -1: several
    lMade,          \* per command, the layer constructed by new() (0: none)
    lInitial,       \* the terrain's layers before the first call
    lState          \* per command, the last call that returned on it:
                    \*   "Created" before the first one

layerVars ==
    <<terrain_layers, layer_chunks, cmds, next_layer, next_texture, lPanicked,
      lCall, lPrev, lBefore, lStack, lLinear, lSolo, lMade, lInitial, lState>>

VARIABLES
    mask_chunks,    \* per chunk of the terrain its layer_masks: the mask
                    \* texture of every layer, a texture being [id, data]
    old_masks,      \* the command's field old_masks
    new_masks,      \* the command's field new_masks
    mask_layer,     \* the command's field layer (0-based)
    mPanicked,      \* a call has panicked
    mCall,          \* the last call: "none", "execute" or "revert"
    mAlternating,   \* the calls so far were execute, revert, execute, ...
    mBuilt          \* the terrain and the two buffer arguments of new()

maskVars ==
    <<mask_chunks, old_masks, new_masks, mask_layer, mPanicked, mCall, mAlternating,
      mBuilt>>

VARIABLES
    tv_self,        \* the TrackValue the operation is called on
    tv_other,       \* the other TrackValue
    tv_weight,      \* the weight, or the interpolation coefficient t
    tv_result,      \* what the operation returned (an Option: <<>> or <<v>>)
    tvOp,           \* the operation applied: "none" before it
    tvBefore        \* tv_self before the operation

trackVars == <<tv_self, tv_other, tv_weight, tv_result, tvOp, tvBefore>>

VARIABLES
    coll_self,      \* the values of the collection the operation is called on
    coll_other,     \* the values of the other collection
    coll_weight,    \* the weight, or the interpolation coefficient t
    coll_result,    \* the values of the collection the operation returned
    cPanicked,      \* the operation panicked
    cAsserted,      \* the panic was BoundValue's assertion on the bindings
    cOp,            \* the operation applied: "none" before it
    cBefore         \* coll_self and coll_other before the operation

collVars == <<coll_self, coll_other, coll_weight, coll_result, cPanicked, cAsserted, cOp,
              cBefore>>

VARIABLES
    apply_values,   \* the values of the collection apply is called on
    node,           \* the scene node: local transform and reflected fields
    log,            \* the messages given to Log::err, oldest first
    aOp,            \* "none" before the call of apply, "apply" after it
    aBefore         \* the node before the call

applyVars == <<apply_values, node, log, aOp, aBefore>>

VARIABLES
    cast_value,     \* the TrackValue numeric_type_cast is called on
    cast_type,      \* the ValueType tag it is given
    cast_result,    \* the Option of the boxed value it returned
    as_num,         \* the real a primitive conversion is given, as the
    as_den,         \*   fraction as_num / as_den
    as_prim,        \* the primitive type it converts to
    as_result,      \* the converted value, as a fraction
    castOp          \* "none", then "cast" or "as": what was called

castVars == <<cast_value, cast_type, cast_result, as_num, as_den, as_prim, as_result,
              castOp>>

VARIABLES
    bv_self,        \* the BoundValue the operation is called on
    bv_other,       \* the other BoundValue
    bv_weight,      \* the weight, or the interpolation coefficient t
    bv_result,      \* the Option of the BoundValue interpolate returned
    bvPanicked,     \* the assertion of the operation failed
    bvOp,           \* the operation applied: "none" before it
    bvBefore        \* bv_self before the operation

boundVars == <<bv_self, bv_other, bv_weight, bv_result, bvPanicked, bvOp, bvBefore>>

VARIABLES
    nd_node,        \* the scene node: its concrete type and its name
    nd_type,        \* the type T a cast is asked for
    nd_accessor,    \* the X of the accessor is_X / as_X / as_X_mut called
    nd_result,      \* the Option of the reference the call returned
    nd_is,          \* what is_X returned
    ndPanicked,     \* the call panicked
    ndOp,           \* the call made: "none" before it
    ndBefore        \* the node before the call

nodeVars == <<nd_node, nd_type, nd_accessor, nd_result, nd_is, ndPanicked, ndOp, ndBefore>>

VARIABLES
    mat_properties, \* Material::properties: property name to PropertyValue
    mat_created,    \* the properties as from_shader created them
    mat_before,     \* the properties before the last call of set_property
    mat_call,       \* the name and the value given to that call
    mat_result      \* what it returned: Ok, or the MaterialError

materialVars == <<mat_properties, mat_created, mat_before, mat_call, mat_result>>

VARIABLES
    st_masks,       \* the chosen layer's live mask buffer of every chunk
    st_old,         \* ModifyTerrainLayerMaskCommand::old_masks
    st_new,         \* ModifyTerrainLayerMaskCommand::new_masks
    st_lock,        \* who holds the lock of each chunk's mask texture
    st_pc,          \* where swap is: its step, chunk i and pixel k
    st_call,        \* the call under way or made last: execute or revert
    st_reader,      \* the chunk whose mask the reader has locked (0: none)
    st_seen,        \* what the reader read last, with the contents of that
                    \*   mask before and after the swap of that time
    st_pre,         \* the live masks when the last call began
    st_post,        \* the new snapshots when the last call began
    st_built        \* the live masks and the snapshots at construction

stepVars == <<st_masks, st_old, st_new, st_lock, st_pc, st_call, st_reader, st_seen,
              st_pre, st_post, st_built>>

vars == <<heightVars, layerVars, maskVars, trackVars, collVars, applyVars, castVars, boundVars, nodeVars, materialVars, stepVars>>

\* What the calls of one part leave alone: the variables of the other parts.
besidesHeight == <<layerVars, maskVars, trackVars, collVars, applyVars, castVars, boundVars, nodeVars, materialVars, stepVars>>

besidesLayers == <<heightVars, maskVars, trackVars, collVars, applyVars, castVars, boundVars, nodeVars, materialVars, stepVars>>

besidesMask == <<heightVars, layerVars, trackVars, collVars, applyVars, castVars, boundVars, nodeVars, materialVars, stepVars>>

besidesTrack == <<heightVars, layerVars, maskVars, collVars, applyVars, castVars, boundVars, nodeVars, materialVars, stepVars>>

besidesColl == <<heightVars, layerVars, maskVars, trackVars, applyVars, castVars, boundVars, nodeVars, materialVars, stepVars>>

besidesApply == <<heightVars, layerVars, maskVars, trackVars, collVars, castVars, boundVars, nodeVars, materialVars, stepVars>>

besidesCast == <<heightVars, layerVars, maskVars, trackVars, collVars, applyVars, boundVars, nodeVars, materialVars, stepVars>>

besidesBound == <<heightVars, layerVars, maskVars, trackVars, collVars, applyVars, castVars, nodeVars, materialVars, stepVars>>

besidesNode == <<heightVars, layerVars, maskVars, trackVars, collVars, applyVars, castVars, boundVars, materialVars, stepVars>>

besidesMaterial == <<heightVars, layerVars, maskVars, trackVars, collVars, applyVars, castVars, boundVars, nodeVars, stepVars>>

besidesStep == <<heightVars, layerVars, maskVars, trackVars, collVars, applyVars, castVars, boundVars, nodeVars, materialVars>>

\* The heightmaps the model draws from (flat arrays of floats).
HeightBuffers == {<<1, 2>>, <<3, 4>>, <<9, 9>>}

\* Chunk::set_heightmap installs the given buffer as the chunk's heightmap.
set_heightmap(chunk, buffer) == buffer

\* A slip: the buffer of the old slot is installed.
HeightSwapInstallsOld(chunks, old, new) ==
    LET n == Min(Len(chunks), Min(Len(old), Len(new)))
    IN  [chunks |-> [i \in 1..Len(chunks) |->
                        IF i <= n THEN set_heightmap(chunks[i], old[i]) ELSE chunks[i]],
         old |-> [i \in 1..Len(old) |-> IF i <= n THEN new[i] ELSE old[i]],
         new |-> [i \in 1..Len(new) |-> IF i <= n THEN old[i] ELSE new[i]]]

\* ModifyTerrainHeightCommand::swap: the three iterators are zipped, so the
\* loop runs over the positions all three have; there the chunk gets a clone
\* of the new buffer and the old and new buffers are exchanged.
HeightSwap(chunks, old, new) ==
    LET n == Min(Len(chunks), Min(Len(old), Len(new)))
    IN  [chunks |-> [i \in 1..Len(chunks) |->
                        IF i <= n THEN set_heightmap(chunks[i], new[i]) ELSE chunks[i]],
         old |-> [i \in 1..Len(old) |-> IF i <= n THEN new[i] ELSE old[i]],
         new |-> [i \in 1..Len(new) |-> IF i <= n THEN old[i] ELSE new[i]]]

HeightInit ==
    /\ terrain_heightmaps \in SeqUpTo(HeightBuffers, MaxChunks)
    /\ old_heightmaps \in SeqUpTo(HeightBuffers, MaxChunks)
    /\ new_heightmaps \in SeqUpTo(HeightBuffers, MaxChunks)
    /\ hCall = "none"
    /\ hAlternating = TRUE
    /\ hBuilt = [terrain |-> terrain_heightmaps, old |-> old_heightmaps,
                 new |-> new_heightmaps]

HeightIdle ==
    /\ terrain_heightmaps = <<>>
    /\ old_heightmaps = <<>>
    /\ new_heightmaps = <<>>
    /\ hCall = "none"
    /\ hAlternating = TRUE
    /\ hBuilt = [terrain |-> <<>>, old |-> <<>>, new |-> <<>>]

HeightCall(op) ==
    LET r == HeightSwap(terrain_heightmaps, old_heightmaps, new_heightmaps)
    IN  /\ terrain_heightmaps' = r.chunks
        /\ old_heightmaps' = r.old
        /\ new_heightmaps' = r.new
        /\ hCall' = op
        /\ hAlternating' = (hAlternating /\ hCall # op /\ (hCall = "none" => op = "execute"))
        /\ UNCHANGED <<hBuilt, besidesHeight>>

\* ModifyTerrainHeightCommand::execute
HeightExecute == HeightCall("execute")

\* ModifyTerrainHeightCommand::revert
HeightRevert == HeightCall("revert")

(***************************************************************************)
(* AddTerrainLayerCommand and DeleteTerrainLayerCommand.                   *)
(***************************************************************************)
\* The most commands the editor creates.
MaxCmds == 2

\* The most layers the terrain starts with.
MaxInitLayers == 2

\* The largest index a DeleteTerrainLayerCommand is created with.
MaxIndex == 2

\* Option::None in a command's layer field (layers are numbered from 1).
None == 0

NoCall == [cmd |-> 0, op |-> "none"]

\* The mask textures the terrain creates for a layer that comes without.
create_layer_masks(chunks, tex) == [i \in 1..chunks |-> tex + i - 1]

\* Terrain::insert_layer: the layer goes to position index (0-based) of the
\* layer list with the given masks, the terrain creating the masks of a
\* layer that brings none. An index past the end panics.
insert_layer(layers, chunks, tex, layer, masks, index) ==
    IF index > Len(layers)
    THEN [panic |-> TRUE, layers |-> layers, tex |-> tex]
    ELSE LET fresh == (Len(masks) # chunks)
             used == IF fresh THEN create_layer_masks(chunks, tex) ELSE masks
         IN  [panic |-> FALSE,
              layers |-> InsertAt(layers, index + 1, [layer |-> layer, masks |-> used]),
              tex |-> IF fresh THEN tex + chunks ELSE tex]

\* Terrain::add_layer: insert_layer at the end.
add_layer(layers, chunks, tex, layer, masks) ==
    insert_layer(layers, chunks, tex, layer, masks, Len(layers))

\* Terrain::remove_layer: removes the layer at index (0-based) and returns it
\* with its masks. An index out of range panics.
remove_layer(layers, index) ==
    IF index >= Len(layers)
    THEN [panic |-> TRUE, layers |-> layers, layer |-> None, masks |-> <<>>]
    ELSE [panic |-> FALSE, layers |-> RemoveAt(layers, index + 1),
          layer |-> layers[index + 1].layer, masks |-> layers[index + 1].masks]

\* Terrain::pop_layer: removes the last layer; None on an empty list.
pop_layer(layers) ==
    IF Len(layers) = 0
    THEN [some |-> FALSE, layers |-> layers, layer |-> None, masks |-> <<>>]
    ELSE [some |-> TRUE, layers |-> SubSeq(layers, 1, Len(layers) - 1),
          layer |-> layers[Len(layers)].layer, masks |-> layers[Len(layers)].masks]

\* AddTerrainLayerCommand::new
AddTerrainLayerCommand_new(layer) ==
    [kind |-> "Add", layer |-> layer, masks |-> <<>>, index |-> 0]

\* DeleteTerrainLayerCommand::new
DeleteTerrainLayerCommand_new(index) ==
    [kind |-> "Delete", layer |-> None, masks |-> <<>>, index |-> index]

\* A slip: the layer and the masks are cloned into the terrain and the
\* command keeps them.
AddExecuteClones(cmd, layers, chunks, tex) ==
    IF cmd.layer = None
    THEN [panic |-> TRUE, cmd |-> cmd, layers |-> layers, tex |-> tex]
    ELSE LET r == add_layer(layers, chunks, tex, cmd.layer, cmd.masks)
         IN  [panic |-> r.panic, cmd |-> cmd, layers |-> r.layers, tex |-> r.tex]

\* AddTerrainLayerCommand::execute: self.layer.take().unwrap() panics on an
\* empty slot, before anything else is touched; otherwise the layer and the
\* masks move out of the command into add_layer.
AddExecute(cmd, layers, chunks, tex) ==
    IF cmd.layer = None
    THEN [panic |-> TRUE, cmd |-> cmd, layers |-> layers, tex |-> tex]
    ELSE LET r == add_layer(layers, chunks, tex, cmd.layer, cmd.masks)
         IN  [panic |-> r.panic,
              cmd |-> [cmd EXCEPT !.layer = None, !.masks = <<>>],
              layers |-> r.layers, tex |-> r.tex]

\* A slip: the popped masks are dropped.
AddRevertDropsMasks(cmd, layers, chunks, tex) ==
    LET r == pop_layer(layers)
    IN  IF ~r.some
        THEN [panic |-> TRUE, cmd |-> cmd, layers |-> layers, tex |-> tex]
        ELSE [panic |-> FALSE,
              cmd |-> [cmd EXCEPT !.layer = r.layer],
              layers |-> r.layers, tex |-> tex]

\* AddTerrainLayerCommand::revert: pop_layer().unwrap() panics on a terrain
\* without layers; otherwise the popped layer and masks go into the command.
AddRevert(cmd, layers, chunks, tex) ==
    LET r == pop_layer(layers)
    IN  IF ~r.some
        THEN [panic |-> TRUE, cmd |-> cmd, layers |-> layers, tex |-> tex]
        ELSE [panic |-> FALSE,
              cmd |-> [cmd EXCEPT !.layer = r.layer, !.masks = r.masks],
              layers |-> r.layers, tex |-> tex]

\* A slip: the last layer is removed, whatever the index.
DeleteExecuteRemovesLast(cmd, layers, chunks, tex) ==
    LET r == remove_layer(layers, Len(layers) - 1)
    IN  IF cmd.index >= Len(layers)
        THEN [panic |-> TRUE, cmd |-> cmd, layers |-> layers, tex |-> tex]
        ELSE [panic |-> FALSE,
              cmd |-> [cmd EXCEPT !.layer = r.layer, !.masks = r.masks],
              layers |-> r.layers, tex |-> tex]

\* DeleteTerrainLayerCommand::execute: what remove_layer(self.index) returns
\* goes into the command.
DeleteExecute(cmd, layers, chunks, tex) ==
    LET r == remove_layer(layers, cmd.index)
    IN  IF r.panic
        THEN [panic |-> TRUE, cmd |-> cmd, layers |-> layers, tex |-> tex]
        ELSE [panic |-> FALSE,
              cmd |-> [cmd EXCEPT !.layer = r.layer, !.masks = r.masks],
              layers |-> r.layers, tex |-> tex]

\* A slip: the layer is put back at the end of the list.
DeleteRevertAppends(cmd, layers, chunks, tex) ==
    IF cmd.layer = None
    THEN [panic |-> TRUE, cmd |-> cmd, layers |-> layers, tex |-> tex]
    ELSE LET r == add_layer(layers, chunks, tex, cmd.layer, cmd.masks)
         IN  [panic |-> r.panic,
              cmd |-> [cmd EXCEPT !.layer = None, !.masks = <<>>],
              layers |-> r.layers, tex |-> r.tex]

\* A slip: a revert on an empty slot returns without doing anything.
DeleteRevertIgnoresEmpty(cmd, layers, chunks, tex) ==
    IF cmd.layer = None
    THEN [panic |-> FALSE, cmd |-> cmd, layers |-> layers, tex |-> tex]
    ELSE LET r == insert_layer(layers, chunks, tex, cmd.layer, cmd.masks, cmd.index)
         IN  [panic |-> r.panic,
              cmd |-> [cmd EXCEPT !.layer = None, !.masks = <<>>],
              layers |-> r.layers, tex |-> r.tex]

\* DeleteTerrainLayerCommand::revert: self.layer.take().unwrap() panics on an
\* empty slot; otherwise the layer and the masks move out of the command into
\* insert_layer at self.index.
DeleteRevert(cmd, layers, chunks, tex) ==
    IF cmd.layer = None
    THEN [panic |-> TRUE, cmd |-> cmd, layers |-> layers, tex |-> tex]
    ELSE LET r == insert_layer(layers, chunks, tex, cmd.layer, cmd.masks, cmd.index)
         IN  [panic |-> r.panic,
              cmd |-> [cmd EXCEPT !.layer = None, !.masks = <<>>],
              layers |-> r.layers, tex |-> r.tex]

\* The terrain starts with n layers, numbered from 1, whose masks are the
\* textures numbered from 1.
InitialLayers(n, chunks) ==
    [j \in 1..n |-> [layer |-> j,
                     masks |-> create_layer_masks(chunks, (j - 1) * chunks + 1)]]

LayerInit ==
    /\ layer_chunks \in 0..MaxChunks
    /\ \E n \in 0..MaxInitLayers :
          /\ terrain_layers = InitialLayers(n, layer_chunks)
          /\ next_layer = n + 1
          /\ next_texture = n * layer_chunks + 1
    /\ cmds = <<>>
    /\ lPanicked = FALSE
    /\ lCall = NoCall
    /\ lPrev = NoCall
    /\ lBefore = terrain_layers
    /\ lStack = <<>>
    /\ lLinear = TRUE
    /\ lSolo = 0
    /\ lMade = <<>>
    /\ lInitial = terrain_layers
    /\ lState = <<>>

LayerIdle ==
    /\ layer_chunks = 0
    /\ terrain_layers = <<>>
    /\ next_layer = 1
    /\ next_texture = 1
    /\ cmds = <<>>
    /\ lPanicked = FALSE
    /\ lCall = NoCall
    /\ lPrev = NoCall
    /\ lBefore = <<>>
    /\ lStack = <<>>
    /\ lLinear = TRUE
    /\ lSolo = 0
    /\ lMade = <<>>
    /\ lInitial = <<>>
    /\ lState = <<>>

\* The editor creates an AddTerrainLayerCommand.
NewAdd ==
    /\ ~lPanicked
    /\ Len(cmds) < MaxCmds
    /\ cmds' = Append(cmds, AddTerrainLayerCommand_new(next_layer))
    /\ lMade' = Append(lMade, next_layer)
    /\ lState' = Append(lState, "Created")
    /\ next_layer' = next_layer + 1
    /\ UNCHANGED <<terrain_layers, layer_chunks, next_texture, lPanicked, lCall,
                   lPrev, lBefore, lStack, lLinear, lSolo, lInitial>>
    /\ UNCHANGED besidesLayers

\* The editor creates a DeleteTerrainLayerCommand.
NewDelete ==
    /\ ~lPanicked
    /\ Len(cmds) < MaxCmds
    /\ \E index \in 0..MaxIndex :
          cmds' = Append(cmds, DeleteTerrainLayerCommand_new(index))
    /\ lMade' = Append(lMade, 0)
    /\ lState' = Append(lState, "Created")
    /\ UNCHANGED <<terrain_layers, layer_chunks, next_layer, next_texture, lPanicked,
                   lCall, lPrev, lBefore, lStack, lLinear, lSolo, lInitial>>
    /\ UNCHANGED besidesLayers

\* What a call of op on command c leaves behind: r is what the handler did.
LayerCall(c, op, r) ==
    LET lin == /\ lLinear
               /\ ~r.panic
               /\ IF op = "execute"
                  THEN \A k \in 1..Len(lStack) : lStack[k] # c
                  ELSE Len(lStack) > 0 /\ lStack[Len(lStack)] = c
    IN  /\ terrain_layers' = r.layers
        /\ cmds' = [cmds EXCEPT ![c] = r.cmd]
        /\ next_texture' = r.tex
        /\ lPanicked' = r.panic
        /\ lPrev' = lCall
        /\ lCall' = [cmd |-> c, op |-> op]
        /\ lBefore' = terrain_layers
        /\ lLinear' = lin
        /\ lStack' = IF ~lin THEN <<>>
                     ELSE IF op = "execute" THEN Append(lStack, c)
                     ELSE SubSeq(lStack, 1, Len(lStack) - 1)
        /\ lSolo' = IF lSolo \in {0, c} THEN c ELSE -1
        /\ lState' = IF r.panic THEN lState
                     ELSE [lState EXCEPT ![c] = IF op = "execute" THEN "Executed"
                                                ELSE "Reverted"]
        /\ UNCHANGED <<layer_chunks, next_layer, lMade, lInitial>>
        /\ UNCHANGED besidesLayers

\* Command::execute of one of the commands.
LayerExecute ==
    /\ ~lPanicked
    /\ \E c \in 1..Len(cmds) :
          LayerCall(c, "execute",
                    IF cmds[c].kind = "Add"
                    THEN AddExecute(cmds[c], terrain_layers, layer_chunks, next_texture)
                    ELSE DeleteExecute(cmds[c], terrain_layers, layer_chunks, next_texture))

\* Command::revert of one of the commands.
LayerRevert ==
    /\ ~lPanicked
    /\ \E c \in 1..Len(cmds) :
          LayerCall(c, "revert",
                    IF cmds[c].kind = "Add"
                    THEN AddRevert(cmds[c], terrain_layers, layer_chunks, next_texture)
                    ELSE DeleteRevert(cmds[c], terrain_layers, layer_chunks, next_texture))

LayerNext == NewAdd \/ NewDelete \/ LayerExecute \/ LayerRevert

(***************************************************************************)
(* ModifyTerrainLayerMaskCommand.                                          *)
(***************************************************************************)
\* The byte buffers the commands are built with, and the ones the masks of
\* the terrain start with.
MaskBuffers == {<<1, 2>>, <<3, 3>>, <<9>>}

LiveMasks == {<<1, 2>>, <<3, 3>>}

\* A slip: the chunk's mask is replaced by a new texture holding the buffer.
write_pixels_replaces(texture, new) == [id |-> 0, data |-> new]

\* The pixel loop of ModifyTerrainLayerMaskCommand::swap: the bytes of the
\* texture are zipped with the new buffer and overwritten one by one, over
\* the positions both have; the texture stays the one it was.
write_pixels(texture, new) ==
    [texture EXCEPT !.data = [k \in 1..Len(texture.data) |->
                                 IF k <= Len(new) THEN new[k] ELSE texture.data[k]]]

\* ModifyTerrainLayerMaskCommand::swap from chunk i (1-based) on: indexing
\* old_masks, new_masks or the chunk's layer_masks out of range panics, with
\* the chunks before i already written; otherwise the chunk's mask of the
\* layer is overwritten with the new buffer and the old and new buffers are
\* exchanged.
RECURSIVE MaskSwapFrom(_, _, _, _, _)
MaskSwapFrom(i, chunks, old, new, layer) ==
    IF i > Len(chunks)
    THEN [panic |-> FALSE, chunks |-> chunks, old |-> old, new |-> new]
    ELSE IF i > Len(old) \/ i > Len(new) \/ layer >= Len(chunks[i])
    THEN [panic |-> TRUE, chunks |-> chunks, old |-> old, new |-> new]
    ELSE MaskSwapFrom(i + 1,
                      [chunks EXCEPT ![i][layer + 1] = write_pixels(@, new[i])],
                      [old EXCEPT ![i] = new[i]],
                      [new EXCEPT ![i] = old[i]],
                      layer)

\* ModifyTerrainLayerMaskCommand::swap
MaskSwap(chunks, old, new, layer) == MaskSwapFrom(1, chunks, old, new, layer)

\* Chunk i starts with two layers: the mask of the first is one of LiveMasks,
\* the mask of the second is <<3, 3>>; every mask is a texture of its own.
InitialMasks(first) ==
    [i \in 1..Len(first) |-> <<[id |-> 2 * i - 1, data |-> first[i]],
                               [id |-> 2 * i, data |-> <<3, 3>>]>>]

MaskInit ==
    /\ \E first \in SeqUpTo(LiveMasks, MaxChunks) : mask_chunks = InitialMasks(first)
    /\ old_masks \in SeqUpTo(MaskBuffers, MaxChunks)
    /\ new_masks \in SeqUpTo(MaskBuffers, MaxChunks)
    /\ mask_layer \in 0..2
    /\ mPanicked = FALSE
    /\ mCall = "none"
    /\ mAlternating = TRUE
    /\ mBuilt = [terrain |-> mask_chunks, old |-> old_masks, new |-> new_masks]

MaskIdle ==
    /\ mask_chunks = <<>>
    /\ old_masks = <<>>
    /\ new_masks = <<>>
    /\ mask_layer = 0
    /\ mPanicked = FALSE
    /\ mCall = "none"
    /\ mAlternating = TRUE
    /\ mBuilt = [terrain |-> <<>>, old |-> <<>>, new |-> <<>>]

MaskCall(op) ==
    LET r == MaskSwap(mask_chunks, old_masks, new_masks, mask_layer)
    IN  /\ ~mPanicked
        /\ mask_chunks' = r.chunks
        /\ old_masks' = r.old
        /\ new_masks' = r.new
        /\ mPanicked' = r.panic
        /\ mCall' = op
        /\ mAlternating' = (mAlternating /\ mCall # op /\ (mCall = "none" => op = "execute"))
        /\ UNCHANGED <<mask_layer, mBuilt, besidesMask>>

\* ModifyTerrainLayerMaskCommand::execute
MaskExecute == MaskCall("execute")

\* ModifyTerrainLayerMaskCommand::revert
MaskRevert == MaskCall("revert")

MaskNext == MaskExecute \/ MaskRevert

(***************************************************************************)
(* TrackValue.                                                             *)
(* A component is an f32; the model keeps it as an integer and draws       *)
(* values, weights and coefficients that are small integers, on which the  *)
(* f32 arithmetic of the code is exact.                                    *)
(***************************************************************************)
\* The variants of TrackValue. A UnitQuaternion holds <<i, j, k, w>>.
Real(x) == [variant |-> "Real", v |-> <<x>>]

Vector2(v) == [variant |-> "Vector2", v |-> v]

Vector3(v) == [variant |-> "Vector3", v |-> v]

Vector4(v) == [variant |-> "Vector4", v |-> v]

UnitQuaternion(q) == [variant |-> "UnitQuaternion", v |-> q]

\* Option<T>: None is the empty sequence, Some(x) the sequence of x.
NoneOf == <<>>

Some(x) == <<x>>

\* Vector::scale and +=, component by component.
scale(v, weight) == [k \in 1..Len(v) |-> v[k] * weight]

add(a, b) == [k \in 1..Len(a) |-> a[k] + b[k]]

\* lerpf(a, b, t) = a + (b - a) * t
lerpf(a, b, t) == a + (b - a) * t

\* A slip: self keeps its full weight.
lerp_keeps_weight(a, b, t) == [k \in 1..Len(a) |-> a[k] + b[k] * t]

\* Vector::lerp(rhs, t) = self * (1 - t) + rhs * t
lerp(a, b, t) == [k \in 1..Len(a) |-> a[k] * (1 - t) + b[k] * t]

Abs(x) == IF x < 0 THEN -x ELSE x

RECURSIVE Gcd(_, _)
Gcd(a, b) == IF b = 0 THEN a ELSE Gcd(b, a % b)

\* Unit::new_normalize: the quaternion of norm 1 with the direction of q. The
\* model keeps a direction as its smallest integer multiple (the components
\* divided by their greatest common divisor), which is the unit quaternion
\* itself for the axis-aligned ones.
new_normalize(q) ==
    LET g == Gcd(Gcd(Abs(q[1]), Abs(q[2])), Gcd(Abs(q[3]), Abs(q[4])))
    IN  IF g = 0 THEN q ELSE [k \in 1..4 |-> q[k] \div g]

\* UnitQuaternion::nlerp: the normalized linear interpolation.
nlerp(a, b, t) == new_normalize(lerp(a, b, t))

\* A slip: the quaternion is scaled like the vectors.
TrackValue_weighted_clone_scales_all(self, weight) ==
    [self EXCEPT !.v = scale(self.v, weight)]

\* TrackValue::weighted_clone
TrackValue_weighted_clone(self, weight) ==
    CASE self.variant = "Real" -> Real(self.v[1] * weight)
      [] self.variant = "Vector2" -> Vector2(scale(self.v, weight))
      [] self.variant = "Vector3" -> Vector3(scale(self.v, weight))
      [] self.variant = "Vector4" -> Vector4(scale(self.v, weight))
      [] self.variant = "UnitQuaternion" -> UnitQuaternion(self.v)

\* A slip: the weight is left out.
TrackValue_blend_with_unweighted(self, other, weight) ==
    IF self.variant # other.variant THEN self
    ELSE IF self.variant = "UnitQuaternion" THEN UnitQuaternion(nlerp(self.v, other.v, 1))
    ELSE [self EXCEPT !.v = add(self.v, other.v)]

\* TrackValue::blend_with: what self is after the call.
TrackValue_blend_with(self, other, weight) ==
    CASE self.variant = "Real" /\ other.variant = "Real" ->
            Real(self.v[1] + other.v[1] * weight)
      [] self.variant = "Vector2" /\ other.variant = "Vector2" ->
            Vector2(add(self.v, scale(other.v, weight)))
      [] self.variant = "Vector3" /\ other.variant = "Vector3" ->
            Vector3(add(self.v, scale(other.v, weight)))
      [] self.variant = "Vector4" /\ other.variant = "Vector4" ->
            Vector4(add(self.v, scale(other.v, weight)))
      [] self.variant = "UnitQuaternion" /\ other.variant = "UnitQuaternion" ->
            UnitQuaternion(nlerp(self.v, other.v, weight))
      [] OTHER -> self

\* A slip: the last arm returns the current value instead of None.
TrackValue_interpolate_keeps_self(self, other, t) ==
    CASE self.variant = "Real" /\ other.variant = "Real" ->
            Some(Real(lerpf(self.v[1], other.v[1], t)))
      [] self.variant = "Vector2" /\ other.variant = "Vector2" ->
            Some(Vector2(lerp(self.v, other.v, t)))
      [] self.variant = "Vector3" /\ other.variant = "Vector3" ->
            Some(Vector3(lerp(self.v, other.v, t)))
      [] self.variant = "Vector4" /\ other.variant = "Vector4" ->
            Some(Vector4(lerp(self.v, other.v, t)))
      [] self.variant = "UnitQuaternion" /\ other.variant = "UnitQuaternion" ->
            Some(UnitQuaternion(nlerp(self.v, other.v, t)))
      [] OTHER -> Some(self)

\* TrackValue::interpolate
TrackValue_interpolate(self, other, t) ==
    CASE self.variant = "Real" /\ other.variant = "Real" ->
            Some(Real(lerpf(self.v[1], other.v[1], t)))
      [] self.variant = "Vector2" /\ other.variant = "Vector2" ->
            Some(Vector2(lerp(self.v, other.v, t)))
      [] self.variant = "Vector3" /\ other.variant = "Vector3" ->
            Some(Vector3(lerp(self.v, other.v, t)))
      [] self.variant = "Vector4" /\ other.variant = "Vector4" ->
            Some(Vector4(lerp(self.v, other.v, t)))
      [] self.variant = "UnitQuaternion" /\ other.variant = "UnitQuaternion" ->
            Some(UnitQuaternion(nlerp(self.v, other.v, t)))
      [] OTHER -> NoneOf

\* The values, and the weights and coefficients, the model draws from.
TrackSamples ==
    {Real(0), Real(3), Vector2(<<1, 2>>), Vector3(<<1, 2, 3>>), Vector3(<<0, 0, 0>>),
     Vector4(<<1, 2, 3, 4>>), UnitQuaternion(<<0, 0, 0, 1>>),
     UnitQuaternion(<<1, 0, 0, 0>>)}

Weights == {0, 1, 2}

TrackInit ==
    /\ tv_self \in TrackSamples
    /\ tv_other \in TrackSamples
    /\ tv_weight \in Weights
    /\ tv_result = NoneOf
    /\ tvOp = "none"
    /\ tvBefore = tv_self

TrackIdle ==
    /\ tv_self = Real(0)
    /\ tv_other = Real(0)
    /\ tv_weight = 0
    /\ tv_result = NoneOf
    /\ tvOp = "none"
    /\ tvBefore = tv_self

\* A call of self.weighted_clone(weight).
TrackWeightedClone ==
    /\ tvOp = "none"
    /\ tvOp' = "weighted_clone"
    /\ tv_result' = Some(TrackValue_weighted_clone(tv_self, tv_weight))
    /\ tvBefore' = tv_self
    /\ UNCHANGED <<tv_self, tv_other, tv_weight, besidesTrack>>

\* A call of self.blend_with(&other, weight).
TrackBlendWith ==
    /\ tvOp = "none"
    /\ tvOp' = "blend_with"
    /\ tv_self' = TrackValue_blend_with(tv_self, tv_other, tv_weight)
    /\ tvBefore' = tv_self
    /\ UNCHANGED <<tv_other, tv_weight, tv_result, besidesTrack>>

\* A call of self.interpolate(&other, t).
TrackInterpolate ==
    /\ tvOp = "none"
    /\ tvOp' = "interpolate"
    /\ tv_result' = TrackValue_interpolate(tv_self, tv_other, tv_weight)
    /\ tvBefore' = tv_self
    /\ UNCHANGED <<tv_self, tv_other, tv_weight, besidesTrack>>

TrackNext == TrackWeightedClone \/ TrackBlendWith \/ TrackInterpolate

(***************************************************************************)
(* ValueBinding, BoundValue and BoundValueCollection: blend_with and       *)
(* interpolate.                                                            *)
(***************************************************************************)
\* The longest collection the model draws.
MaxCollLen == 2

\* The variants of ValueBinding.
Position == [kind |-> "Position", name |-> "", value_type |-> ""]

Scale == [kind |-> "Scale", name |-> "", value_type |-> ""]

Rotation == [kind |-> "Rotation", name |-> "", value_type |-> ""]

Property(name, value_type) ==
    [kind |-> "Property", name |-> name, value_type |-> value_type]

\* A slip: the value_type of a property is left out of the comparison.
binding_eq_by_path(a, b) == a.kind = b.kind /\ a.name = b.name

\* The derived PartialEq of ValueBinding: the same variant with equal fields.
binding_eq(a, b) == a = b

BoundValue(binding, value) == [binding |-> binding, value |-> value]

\* BoundValue::weighted_clone: the binding cloned, the value weighted.
BoundValue_weighted_clone(self, weight) ==
    BoundValue(self.binding, TrackValue_weighted_clone(self.value, weight))

\* A slip: the bindings are not compared.
BoundValue_blend_with_unchecked(self, other, weight) ==
    [panic |-> FALSE,
     self |-> [self EXCEPT !.value = TrackValue_blend_with(@, other.value, weight)]]

\* BoundValue::blend_with: assert_eq! on the bindings, then the values blend.
BoundValue_blend_with(self, other, weight) ==
    IF ~binding_eq(self.binding, other.binding)
    THEN [panic |-> TRUE, self |-> self]
    ELSE [panic |-> FALSE,
          self |-> [self EXCEPT !.value = TrackValue_blend_with(@, other.value, weight)]]

\* BoundValue::interpolate: assert_eq! on the bindings, then the Option of the
\* values' interpolate, mapped to a BoundValue with self's binding.
BoundValue_interpolate(self, other, t) ==
    IF ~binding_eq(self.binding, other.binding)
    THEN [panic |-> TRUE, result |-> NoneOf]
    ELSE LET r == TrackValue_interpolate(self.value, other.value, t)
         IN  [panic |-> FALSE,
              result |-> IF r = NoneOf THEN NoneOf
                         ELSE Some(BoundValue(self.binding, r[1]))]

\* BoundValueCollection::weighted_clone: the weighted clones of the values,
\* collected in their order.
BoundValueCollection_weighted_clone(self, weight) ==
    [k \in 1..Len(self) |-> BoundValue_weighted_clone(self[k], weight)]

\* A slip: the last entry with the binding is taken (0: there is none).
find_last(values, binding) ==
    LET found == {k \in 1..Len(values) : binding_eq(values[k].binding, binding)}
    IN  IF found = {} THEN 0 ELSE CHOOSE k \in found : \A m \in found : m <= k

\* A slip: the first entry of the same kind of binding is taken, whatever
\* its property (0: there is none).
find_by_kind(values, binding) ==
    LET found == {k \in 1..Len(values) : values[k].binding.kind = binding.kind}
    IN  IF found = {} THEN 0 ELSE CHOOSE k \in found : \A m \in found : k <= m

\* other.values.iter().find(|v| v.binding == value.binding) from position k
\* on: the position of the first entry with the binding (0: there is none).
RECURSIVE find_from(_, _, _)
find_from(values, binding, k) ==
    IF k > Len(values) THEN 0
    ELSE IF binding_eq(values[k].binding, binding) THEN k
    ELSE find_from(values, binding, k + 1)

find(values, binding) == find_from(values, binding, 1)

\* BoundValueCollection::blend_with from entry i of self on: an entry with a
\* counterpart in other is blended with it in place.
RECURSIVE blend_with_from(_, _, _, _)
blend_with_from(i, self, other, weight) ==
    IF i > Len(self) THEN [panic |-> FALSE, assertion_failed |-> FALSE, self |-> self]
    ELSE LET j == find(other, self[i].binding)
         IN  IF j = 0 THEN blend_with_from(i + 1, self, other, weight)
             ELSE LET r == BoundValue_blend_with(self[i], other[j], weight)
                  IN  IF r.panic
                      THEN [panic |-> TRUE, assertion_failed |-> TRUE, self |-> self]
                      ELSE blend_with_from(i + 1, [self EXCEPT ![i] = r.self], other,
                                           weight)

\* BoundValueCollection::blend_with
BoundValueCollection_blend_with(self, other, weight) ==
    blend_with_from(1, self, other, weight)

\* BoundValueCollection::interpolate from entry i of self on: for an entry
\* with a counterpart in other, value.interpolate(other_value, t).unwrap() is
\* pushed to new_values; the unwrap of None panics.
RECURSIVE interpolate_from(_, _, _, _, _)
interpolate_from(i, self, other, t, new_values) ==
    IF i > Len(self)
    THEN [panic |-> FALSE, assertion_failed |-> FALSE, values |-> new_values]
    ELSE LET j == find(other, self[i].binding)
         IN  IF j = 0 THEN interpolate_from(i + 1, self, other, t, new_values)
             ELSE LET r == BoundValue_interpolate(self[i], other[j], t)
                  IN  IF r.panic \/ r.result = NoneOf
                      THEN [panic |-> TRUE, assertion_failed |-> r.panic,
                            values |-> new_values]
                      ELSE interpolate_from(i + 1, self, other, t,
                                            Append(new_values, r.result[1]))

\* BoundValueCollection::interpolate
BoundValueCollection_interpolate(self, other, t) ==
    interpolate_from(1, self, other, t, <<>>)

\* The entries the collections are drawn from: the other side has two
\* entries bound to Position with different values, one bound to Position
\* with a value of another variant, and a Property of the same path as
\* self's with another value_type.
SelfEntries ==
    {BoundValue(Position, Vector3(<<1, 2, 3>>)),
     BoundValue(Scale, Vector3(<<2, 2, 2>>)),
     BoundValue(Rotation, UnitQuaternion(<<1, 0, 0, 0>>)),
     BoundValue(Property("p", "F32"), Real(4)),
     BoundValue(Property("uv", "Vector2F32"), Vector2(<<1, 2>>)),
     BoundValue(Property("color", "Vector4U8"), Vector4(<<1, 2, 3, 4>>))}

OtherEntries ==
    {BoundValue(Position, Vector3(<<3, 2, 1>>)),
     BoundValue(Position, Vector3(<<7, 7, 7>>)),
     BoundValue(Position, Real(5)),
     BoundValue(Rotation, UnitQuaternion(<<0, 0, 0, 1>>)),
     BoundValue(Property("p", "F32"), Real(6)),
     BoundValue(Property("p", "I32"), Real(6))}

CollInit ==
    /\ coll_self \in SeqUpTo(SelfEntries, MaxCollLen)
    /\ coll_other \in SeqUpTo(OtherEntries, MaxCollLen)
    /\ coll_weight \in Weights
    /\ coll_result = <<>>
    /\ cPanicked = FALSE
    /\ cAsserted = FALSE
    /\ cOp = "none"
    /\ cBefore = [self |-> coll_self, other |-> coll_other]

CollIdle ==
    /\ coll_self = <<>>
    /\ coll_other = <<>>
    /\ coll_weight = 0
    /\ coll_result = <<>>
    /\ cPanicked = FALSE
    /\ cAsserted = FALSE
    /\ cOp = "none"
    /\ cBefore = [self |-> <<>>, other |-> <<>>]

\* A call of self.blend_with(&other, weight).
CollBlendWith ==
    LET r == BoundValueCollection_blend_with(coll_self, coll_other, coll_weight)
    IN  /\ cOp = "none"
        /\ cOp' = "blend_with"
        /\ coll_self' = r.self
        /\ cPanicked' = r.panic
        /\ cAsserted' = r.assertion_failed
        /\ UNCHANGED <<coll_other, coll_weight, coll_result, cBefore, besidesColl>>

\* A call of self.interpolate(&other, t).
CollInterpolate ==
    LET r == BoundValueCollection_interpolate(coll_self, coll_other, coll_weight)
    IN  /\ cOp = "none"
        /\ cOp' = "interpolate"
        /\ coll_result' = IF r.panic THEN <<>> ELSE r.values
        /\ cPanicked' = r.panic
        /\ cAsserted' = r.assertion_failed
        /\ UNCHANGED <<coll_self, coll_other, coll_weight, cBefore, besidesColl>>

\* A call of self.weighted_clone(weight).
CollWeightedClone ==
    /\ cOp = "none"
    /\ cOp' = "weighted_clone"
    /\ coll_result' = BoundValueCollection_weighted_clone(coll_self, coll_weight)
    /\ UNCHANGED <<coll_self, coll_other, coll_weight, cPanicked, cAsserted, cBefore,
                   besidesColl>>

CollNext == CollBlendWith \/ CollInterpolate \/ CollWeightedClone

(***************************************************************************)
(* ValueType, TrackValue::numeric_type_cast and                            *)
(* BoundValueCollection::apply.                                            *)
(***************************************************************************)
\* The longest collection apply is called on.
MaxApplyLen == 3

\* The primitive types a ValueType tag names, and the tags by shape.
Prims == {"Bool", "F32", "F64", "U64", "I64", "U32", "I32", "U16", "I16", "U8", "I8"}

RealTags == Prims

Vector2Tags == {"Vector2" \o p : p \in Prims}

Vector3Tags == {"Vector3" \o p : p \in Prims}

Vector4Tags == {"Vector4" \o p : p \in Prims}

UnitQuaternionTags == {"UnitQuaternionF32", "UnitQuaternionF64"}

ValueType == RealTags \cup Vector2Tags \cup Vector3Tags \cup Vector4Tags
                 \cup UnitQuaternionTags

Clamp(x, lo, hi) == IF x < lo THEN lo ELSE IF x > hi THEN hi ELSE x

\* A slip: the value is rounded to the nearest whole number.
trunc_rounds(num, den) ==
    IF num < 0 THEN -((2 * (-num) + den) \div (2 * den))
    ELSE (2 * num + den) \div (2 * den)

\* The whole part of the real num/den (den > 0): `as` to an integer type
\* rounds toward zero.
trunc(num, den) == IF num < 0 THEN -((-num) \div den) ELSE num \div den

\* The f32 num/den to the primitive p, as a fraction: `ne(&0.0)` for Bool
\* (1: true, 0: false), the value itself for the floats, the truncating and
\* saturating `as` for the integers. The reals of the model lie within the
\* 32 and 64 bit ranges, so those casts saturate only below zero, for the
\* unsigned types.
as_frac(num, den, p) ==
    CASE p = "Bool" -> [num |-> IF num # 0 THEN 1 ELSE 0, den |-> 1]
      [] p \in {"F32", "F64"} -> [num |-> num, den |-> den]
      [] p \in {"U64", "U32"} ->
            [num |-> IF num < 0 THEN 0 ELSE trunc(num, den), den |-> 1]
      [] p \in {"I64", "I32"} -> [num |-> trunc(num, den), den |-> 1]
      [] p = "U16" -> [num |-> Clamp(trunc(num, den), 0, 65535), den |-> 1]
      [] p = "I16" -> [num |-> Clamp(trunc(num, den), -32768, 32767), den |-> 1]
      [] p = "U8" -> [num |-> Clamp(trunc(num, den), 0, 255), den |-> 1]
      [] p = "I8" -> [num |-> Clamp(trunc(num, den), -128, 127), den |-> 1]

\* The conversion of a whole real, the only reals a TrackValue of the model
\* holds.
as_(x, p) == as_frac(x, 1, p).num

\* convert_vec2, convert_vec3, convert_vec4: component by component.
convert_vec(vec, p) == [k \in 1..Len(vec) |-> as_(vec[k], p)]

\* The boxed value: its concrete type and its components.
Box(tag, components) == [type |-> tag, v |-> components]

\* The tags of the arm of the match the value's variant selects, and the
\* prefix its tags carry before the primitive's name.
TagsOf(variant) ==
    CASE variant = "Real" -> RealTags
      [] variant = "Vector2" -> Vector2Tags
      [] variant = "Vector3" -> Vector3Tags
      [] variant = "Vector4" -> Vector4Tags
      [] variant = "UnitQuaternion" -> UnitQuaternionTags

PrefixOf(variant) == IF variant = "Real" THEN "" ELSE variant

\* A slip: the value is boxed under any tag, whatever its shape.
numeric_type_cast_any_shape(self, value_type) == Some(Box(value_type, self.v))

\* TrackValue::numeric_type_cast: the boxed value for a tag of the value's
\* own shape, None (`_ => None`) for every other tag.
numeric_type_cast(self, value_type) ==
    IF value_type \notin TagsOf(self.variant) THEN NoneOf
    ELSE LET p == CHOOSE q \in Prims : value_type = PrefixOf(self.variant) \o q
         IN  Some(Box(value_type, convert_vec(self.v, p)))

\* The reflective setter: InvalidPath when the node has no field of that
\* path, InvalidValue when the boxed value is not of the field's type.
set_field_by_path(fields, path, boxed) ==
    IF path \notin DOMAIN fields THEN [err |-> "InvalidPath", fields |-> fields]
    ELSE IF fields[path].type # boxed.type THEN [err |-> "InvalidValue", fields |-> fields]
    ELSE [err |-> "", fields |-> [fields EXCEPT ![path] = boxed]]

\* What apply does with one entry: the node and the log after it.
apply_one(bound_value, n, l) ==
    LET binding == bound_value.binding
        value == bound_value.value
    IN  CASE binding.kind = "Position" ->
               IF value.variant = "Vector3"
               THEN [node |-> [n EXCEPT !.position = value.v], log |-> l]
               ELSE [node |-> n,
                     log |-> Append(l, "Unable to apply position, because underlying type is not Vector3!")]
          [] binding.kind = "Scale" ->
               IF value.variant = "Vector3"
               THEN [node |-> [n EXCEPT !.scale = value.v], log |-> l]
               ELSE [node |-> n,
                     log |-> Append(l, "Unable to apply scaling, because underlying type is not Vector3!")]
          [] binding.kind = "Rotation" ->
               IF value.variant = "UnitQuaternion"
               THEN [node |-> [n EXCEPT !.rotation = value.v], log |-> l]
               ELSE [node |-> n,
                     log |-> Append(l, "Unable to apply rotation, because underlying type is not UnitQuaternion!")]
          [] binding.kind = "Property" ->
               LET casted == numeric_type_cast(value, binding.value_type)
               IN  IF casted = NoneOf THEN [node |-> n, log |-> l]
                   ELSE LET r == set_field_by_path(n.fields, binding.name, casted[1])
                        IN  [node |-> [n EXCEPT !.fields = r.fields],
                             log |-> CASE r.err = "InvalidPath" ->
                                            Append(l, "Failed to set property " \o binding.name
                                                          \o "! Invalid path")
                                       [] r.err = "InvalidValue" ->
                                            Append(l, "Failed to set property " \o binding.name
                                                          \o "! Types mismatch!")
                                       [] OTHER -> l]

\* BoundValueCollection::apply from entry i on.
RECURSIVE apply_from(_, _, _, _)
apply_from(i, values, n, l) ==
    IF i > Len(values) THEN [node |-> n, log |-> l]
    ELSE LET r == apply_one(values[i], n, l)
         IN  apply_from(i + 1, values, r.node, r.log)

\* A slip: the loop ends after the first entry.
apply_first_only(values, n, l) ==
    apply_from(1, SubSeq(values, 1, Min(1, Len(values))), n, l)

\* A slip: the entries are applied from the last to the first.
apply_reversed(values, n, l) ==
    apply_from(1, [i \in 1..Len(values) |-> values[Len(values) + 1 - i]], n, l)

\* BoundValueCollection::apply
BoundValueCollection_apply(values, n, l) == apply_from(1, values, n, l)

\* A node with its local transform and two reflected fields.
InitialNode ==
    [position |-> <<0, 0, 0>>,
     scale |-> <<1, 1, 1>>,
     rotation |-> <<1, 0, 0, 0>>,
     fields |-> [depth_offset |-> Box("F32", <<0>>),
                 visibility |-> Box("Bool", <<1>>)]]

\* The entries apply is given: entries that are written, entries of a wrong
\* variant, a property of a wrong type, properties whose path the node
\* does not have, one with a value of the declared shape and one without,
\* and a second position and a second value of the same property.
ApplyEntries ==
    {BoundValue(Position, Vector3(<<1, 2, 3>>)),
     BoundValue(Position, Real(5)),
     BoundValue(Scale, Vector3(<<2, 2, 2>>)),
     BoundValue(Rotation, UnitQuaternion(<<0, 0, 0, 1>>)),
     BoundValue(Property("depth_offset", "F32"), Real(4)),
     BoundValue(Property("depth_offset", "I32"), Real(4)),
     BoundValue(Property("visibility", "Bool"), Real(0)),
     BoundValue(Property("missing", "F32"), Real(4)),
     BoundValue(Property("missing", "F32"), Vector3(<<1, 2, 3>>)),
     BoundValue(Property("depth_offset", "F32"), Vector3(<<1, 2, 3>>)),
     BoundValue(Scale, Real(5)),
     BoundValue(Rotation, Vector3(<<1, 2, 3>>)),
     BoundValue(Position, Vector3(<<7, 7, 7>>)),
     BoundValue(Property("depth_offset", "F32"), Real(8))}

ApplyInit ==
    /\ apply_values \in SeqUpTo(ApplyEntries, MaxApplyLen)
    /\ node = InitialNode
    /\ log = <<>>
    /\ aOp = "none"
    /\ aBefore = InitialNode

ApplyIdle ==
    /\ apply_values = <<>>
    /\ node = InitialNode
    /\ log = <<>>
    /\ aOp = "none"
    /\ aBefore = InitialNode

\* A call of apply(&mut node).
Apply ==
    LET r == BoundValueCollection_apply(apply_values, node, log)
    IN  /\ aOp = "none"
        /\ aOp' = "apply"
        /\ node' = r.node
        /\ log' = r.log
        /\ UNCHANGED <<apply_values, aBefore, besidesApply>>

ApplyNext == Apply

(***************************************************************************)
(* Calls of numeric_type_cast and of the primitive conversion it is built  *)
(* on.                                                                     *)
(***************************************************************************)
\* The values the cast is called on: every variant, with negative components
\* and components beyond the 8 and 16 bit ranges.
CastSamples ==
    {Real(0), Real(-1), Real(300), Vector2(<<-5, 300>>), Vector3(<<1, 2, 3>>),
     Vector4(<<0, -1, 40000, 7>>), UnitQuaternion(<<0, 0, 0, 1>>)}

\* The reals the primitive conversion is called on, in tenths when as_den is
\* 10: 5.7, -5.7, 255.9, -128.9, 0.4 and whole numbers in and beyond the
\* ranges of the 8 and 16 bit types.
AsNumerators == {0, 4, -4, 57, -57, 2559, 2560, -1289, -10, 10, 40000, -40000, 65536}

AsDenominators == {1, 10}

CastIdle ==
    /\ cast_value = Real(0)
    /\ cast_type = "F32"
    /\ cast_result = NoneOf
    /\ as_num = 0
    /\ as_den = 1
    /\ as_prim = "F32"
    /\ as_result = [num |-> 0, den |-> 1]
    /\ castOp = "none"

\* Either a value and a tag for the cast, or a real and a primitive type
\* for the conversion.
CastInit ==
    /\ cast_result = NoneOf
    /\ as_result = [num |-> 0, den |-> 1]
    /\ castOp = "none"
    /\ \/ /\ cast_value \in CastSamples
          /\ cast_type \in ValueType
          /\ as_num = 0
          /\ as_den = 1
          /\ as_prim = "F32"
       \/ /\ cast_value = Real(0)
          /\ cast_type = "F32"
          /\ as_num \in AsNumerators
          /\ as_den \in AsDenominators
          /\ as_prim \in Prims

\* A call of cast_value.numeric_type_cast(cast_type).
Cast ==
    /\ castOp = "none"
    /\ castOp' = "cast"
    /\ cast_result' = numeric_type_cast(cast_value, cast_type)
    /\ UNCHANGED <<cast_value, cast_type, as_num, as_den, as_prim, as_result, besidesCast>>

\* The conversion of the real as_num / as_den to as_prim.
AsCast ==
    /\ castOp = "none"
    /\ castOp' = "as"
    /\ as_result' = as_frac(as_num, as_den, as_prim)
    /\ UNCHANGED <<cast_value, cast_type, cast_result, as_num, as_den, as_prim, besidesCast>>

CastNext == Cast \/ AsCast

(***************************************************************************)
(* Calls of BoundValue::blend_with and BoundValue::interpolate.            *)
(***************************************************************************)
BoundInit ==
    /\ bv_self \in SelfEntries
    /\ bv_other \in OtherEntries
    /\ bv_weight \in Weights
    /\ bv_result = NoneOf
    /\ bvPanicked = FALSE
    /\ bvOp = "none"
    /\ bvBefore = bv_self

BoundIdle ==
    /\ bv_self = BoundValue(Position, Vector3(<<0, 0, 0>>))
    /\ bv_other = BoundValue(Position, Vector3(<<0, 0, 0>>))
    /\ bv_weight = 0
    /\ bv_result = NoneOf
    /\ bvPanicked = FALSE
    /\ bvOp = "none"
    /\ bvBefore = bv_self

\* A call of self.blend_with(&other, weight).
BoundBlendWith ==
    LET r == BoundValue_blend_with(bv_self, bv_other, bv_weight)
    IN  /\ bvOp = "none"
        /\ bvOp' = "blend_with"
        /\ bv_self' = r.self
        /\ bvPanicked' = r.panic
        /\ UNCHANGED <<bv_other, bv_weight, bv_result, bvBefore, besidesBound>>

\* A call of self.interpolate(&other, t).
BoundInterpolate ==
    LET r == BoundValue_interpolate(bv_self, bv_other, bv_weight)
    IN  /\ bvOp = "none"
        /\ bvOp' = "interpolate"
        /\ bv_result' = r.result
        /\ bvPanicked' = r.panic
        /\ UNCHANGED <<bv_self, bv_other, bv_weight, bvBefore, besidesBound>>

BoundNext == BoundBlendWith \/ BoundInterpolate

(***************************************************************************)
(* Node: the downcasts cast and cast_mut, and the accessors define_is_as!  *)
(* generates.                                                              *)
(***************************************************************************)
\* The concrete node types: those the accessors name, DirectionalLight and
\* Pivot.
NodeTypes ==
    {"Mesh", "Camera", "SpotLight", "PointLight", "DirectionalLight", "ParticleSystem",
     "Sprite", "Terrain", "Decal", "Rectangle", "scene::rigidbody::RigidBody",
     "scene::collider::Collider", "scene::joint::Joint", "dim2::rigidbody::RigidBody",
     "dim2::collider::Collider", "dim2::joint::Joint", "Sound", "Listener",
     "NavigationalMesh", "Pivot"}

\* The type each define_is_as! line gives its accessors is_X, as_X, as_X_mut.
AccessorType ==
    [mesh |-> "Mesh",
     camera |-> "Camera",
     spot_light |-> "SpotLight",
     point_light |-> "PointLight",
     directional_light |-> "PointLight",
     particle_system |-> "ParticleSystem",
     sprite |-> "Sprite",
     terrain |-> "Terrain",
     decal |-> "Decal",
     rectangle |-> "Rectangle",
     rigid_body |-> "scene::rigidbody::RigidBody",
     collider |-> "scene::collider::Collider",
     joint |-> "scene::joint::Joint",
     rigid_body2d |-> "dim2::rigidbody::RigidBody",
     collider2d |-> "dim2::collider::Collider",
     joint2d |-> "dim2::joint::Joint",
     sound |-> "Sound",
     listener |-> "Listener",
     navigational_mesh |-> "NavigationalMesh"]

Accessors == DOMAIN AccessorType

\* Node::new: the node boxed with its concrete type.
Node_new(type, name) == [type |-> type, name |-> name]

\* BaseNodeTrait::as_any_ref / as_any_ref_mut: the node itself, as Any.
as_any_ref(n) == n

\* <dyn Any>::downcast_ref / downcast_mut: the reference when the concrete
\* type is T, None otherwise.
downcast_ref(any, T) == IF any.type = T THEN Some(any) ELSE NoneOf

\* A slip: the reference is returned whatever the concrete type.
cast_unchecked(n, T) == Some(n)

\* Node::cast and Node::cast_mut
cast(n, T) == downcast_ref(as_any_ref(n), T)

cast_mut(n, T) == downcast_ref(as_any_ref(n), T)

\* define_is_as!: fn $is
is_(n, X) == cast(n, AccessorType[X]) # NoneOf

\* define_is_as!: fn $as_ref, with unwrap_or_else(|| panic!(..))
as_ref(n, X) ==
    LET r == cast(n, AccessorType[X])
    IN  [panic |-> r = NoneOf, result |-> r]

\* define_is_as!: fn $as_mut, with unwrap_or_else(|| panic!(..))
as_mut(n, X) ==
    LET r == cast_mut(n, AccessorType[X])
    IN  [panic |-> r = NoneOf, result |-> r]

NodeInit ==
    /\ nd_node \in {Node_new(t, "node") : t \in NodeTypes}
    /\ nd_type \in NodeTypes
    /\ nd_accessor \in Accessors
    /\ nd_result = NoneOf
    /\ nd_is = FALSE
    /\ ndPanicked = FALSE
    /\ ndOp = "none"
    /\ ndBefore = nd_node

NodeIdle ==
    /\ nd_node = Node_new("Pivot", "node")
    /\ nd_type = "Pivot"
    /\ nd_accessor = "mesh"
    /\ nd_result = NoneOf
    /\ nd_is = FALSE
    /\ ndPanicked = FALSE
    /\ ndOp = "none"
    /\ ndBefore = nd_node

\* A call of node.cast::<T>().
NodeCast ==
    /\ ndOp = "none"
    /\ ndOp' = "cast"
    /\ nd_result' = cast(nd_node, nd_type)
    /\ UNCHANGED <<nd_node, nd_type, nd_accessor, nd_is, ndPanicked, ndBefore, besidesNode>>

\* A call of node.cast_mut::<T>().
NodeCastMut ==
    /\ ndOp = "none"
    /\ ndOp' = "cast_mut"
    /\ nd_result' = cast_mut(nd_node, nd_type)
    /\ UNCHANGED <<nd_node, nd_type, nd_accessor, nd_is, ndPanicked, ndBefore, besidesNode>>

\* A call of node.is_X().
NodeIs ==
    /\ ndOp = "none"
    /\ ndOp' = "is"
    /\ nd_is' = is_(nd_node, nd_accessor)
    /\ UNCHANGED <<nd_node, nd_type, nd_accessor, nd_result, ndPanicked, ndBefore,
                   besidesNode>>

\* A call of node.as_X().
NodeAsRef ==
    LET r == as_ref(nd_node, nd_accessor)
    IN  /\ ndOp = "none"
        /\ ndOp' = "as"
        /\ nd_result' = r.result
        /\ ndPanicked' = r.panic
        /\ UNCHANGED <<nd_node, nd_type, nd_accessor, nd_is, ndBefore, besidesNode>>

\* A call of node.as_X_mut().
NodeAsMut ==
    LET r == as_mut(nd_node, nd_accessor)
    IN  /\ ndOp = "none"
        /\ ndOp' = "as_mut"
        /\ nd_result' = r.result
        /\ ndPanicked' = r.panic
        /\ UNCHANGED <<nd_node, nd_type, nd_accessor, nd_is, ndBefore, besidesNode>>

NodeNext == NodeCast \/ NodeCastMut \/ NodeIs \/ NodeAsRef \/ NodeAsMut

(***************************************************************************)
(* Material: from_shader and set_property.                                 *)
(***************************************************************************)
\* The most properties the shader of the model defines.
MaxProps == 2

\* A PropertyValue: its variant and its payload as a sequence of numbers (a
\* Sampler holds <<texture, fallback>>, with texture 0 for None).
PropertyValue(variant, v) == [variant |-> variant, v |-> v]

\* The variants set_property has an arm for.
SetArms ==
    {"Sampler", "Float", "FloatArray", "Int", "IntArray", "Bool", "UInt", "UIntArray",
     "Vector2", "Vector2Array", "Vector3", "Vector3Array", "Vector4", "Vector4Array",
     "Matrix2", "Matrix2Array", "Matrix3", "Matrix3Array", "Matrix4", "Matrix4Array",
     "Color"}

\* The payload no value has: the fields of a result that are not set.
NoValue == PropertyValue("", <<>>)

Ok == [kind |-> "Ok", property_name |-> "", expected |-> NoValue, given |-> NoValue]

NoSuchProperty(name) ==
    [kind |-> "NoSuchProperty", property_name |-> name, expected |-> NoValue,
     given |-> NoValue]

TypeMismatch(name, expected, given) ==
    [kind |-> "TypeMismatch", property_name |-> name, expected |-> expected,
     given |-> given]

\* The PropertyValue from_shader makes of a PropertyKind: the same variant
\* with the default value; the texture of a sampler is requested only when
\* the definition has a default path and a resource manager is given.
value_of_kind(kind, resource_manager) ==
    IF kind.kind = "Sampler"
    THEN PropertyValue("Sampler",
                       <<IF kind.v[1] # 0 /\ resource_manager THEN kind.v[1] ELSE 0,
                         kind.v[2]>>)
    ELSE PropertyValue(kind.kind, kind.v)

\* Material::from_shader from definition i on: every property definition of
\* the shader is inserted under its name, a later one replacing an earlier
\* one of the same name.
RECURSIVE from_shader_from(_, _, _, _)
from_shader_from(i, definitions, resource_manager, property_values) ==
    IF i > Len(definitions) THEN property_values
    ELSE from_shader_from(
             i + 1, definitions, resource_manager,
             [n \in DOMAIN property_values \cup {definitions[i].name} |->
                 IF n = definitions[i].name
                 THEN value_of_kind(definitions[i].kind, resource_manager)
                 ELSE property_values[n]])

\* Material::from_shader
from_shader(definitions, resource_manager) ==
    from_shader_from(1, definitions, resource_manager, <<>>)

\* A slip: the value is replaced whatever its variant.
set_property_unchecked(properties, name, new_value) ==
    IF name \in DOMAIN properties
    THEN [result |-> Ok, properties |-> [properties EXCEPT ![name] = new_value]]
    ELSE [result |-> NoSuchProperty(name), properties |-> properties]

\* Material::set_property: the stored value is overwritten in the arm of its
\* variant when the new value has that variant too; the last arm returns
\* TypeMismatch, a missing name NoSuchProperty.
set_property(properties, name, new_value) ==
    IF name \in DOMAIN properties
    THEN IF properties[name].variant = new_value.variant /\ new_value.variant \in SetArms
         THEN [result |-> Ok, properties |-> [properties EXCEPT ![name] = new_value]]
         ELSE [result |-> TypeMismatch(name, properties[name], new_value),
               properties |-> properties]
    ELSE [result |-> NoSuchProperty(name), properties |-> properties]

\* The property definitions the shader of the model is made of.
PropertyDefinitions ==
    {[name |-> "diffuseColor", kind |-> [kind |-> "Color", v |-> <<255, 255, 255, 255>>]],
     [name |-> "diffuseTexture", kind |-> [kind |-> "Sampler", v |-> <<5, 1>>]],
     [name |-> "time", kind |-> [kind |-> "Float", v |-> <<0>>]],
     [name |-> "time", kind |-> [kind |-> "Int", v |-> <<0>>]]}

\* The names and values set_property is called with: a value of every
\* variant, and a second one for Color, Sampler and Float.
PropertyNames == {"diffuseColor", "diffuseTexture", "time", "missing"}

NewValues ==
    {PropertyValue(variant, <<1>>) : variant \in SetArms \ {"Sampler", "Color"}}
        \cup {PropertyValue("Float", <<2>>),
              PropertyValue("Color", <<0, 0, 0, 255>>),
              PropertyValue("Color", <<255, 0, 0, 255>>),
              PropertyValue("Sampler", <<0, 1>>),
              PropertyValue("Sampler", <<7, 2>>)}

NoSet == [name |-> "", new_value |-> NoValue]

MaterialInit ==
    /\ \E definitions \in SeqUpTo(PropertyDefinitions, MaxProps), rm \in BOOLEAN :
          mat_properties = from_shader(definitions, rm)
    /\ mat_created = mat_properties
    /\ mat_before = mat_properties
    /\ mat_call = NoSet
    /\ mat_result = Ok

MaterialIdle ==
    /\ mat_properties = <<>>
    /\ mat_created = <<>>
    /\ mat_before = <<>>
    /\ mat_call = NoSet
    /\ mat_result = Ok

\* A call of material.set_property(name, new_value).
SetProperty ==
    \E name \in PropertyNames, new_value \in NewValues :
        LET r == set_property(mat_properties, name, new_value)
        IN  /\ mat_properties' = r.properties
            /\ mat_result' = r.result
            /\ mat_before' = mat_properties
            /\ mat_call' = [name |-> name, new_value |-> new_value]
            /\ UNCHANGED <<mat_created, besidesMaterial>>

MaterialNext == SetProperty

(***************************************************************************)
(* ModifyTerrainLayerMaskCommand::swap step by step, beside a reader of    *)
(* the mask textures.                                                      *)
(***************************************************************************)
\* Texture::data_ref takes the lock of the texture's data: it is granted
\* when nobody holds it.
try_lock_unguarded(lock, c) == TRUE

try_lock(lock, c) == lock[c] = "free"

\* A slip: the new buffer is copied over the old one.
mem_swap_copies(a, b) == [a |-> b, b |-> b]

\* std::mem::swap(old, new)
mem_swap(a, b) == [a |-> b, b |-> a]

Idle == [step |-> "idle", i |-> 0, k |-> 0]

NotSeen == [chunk |-> 0, data |-> <<>>, pre |-> <<>>, post |-> <<>>]

\* The command is built by the editor from the live masks: the old
\* snapshots are copies of them, the new ones buffers of the same size.
StepInit ==
    /\ st_masks \in SeqUpTo(LiveMasks, MaxChunks)
    /\ st_old = st_masks
    /\ \E new \in SeqUpTo(LiveMasks, MaxChunks) : Len(new) = Len(st_masks) /\ st_new = new
    /\ st_lock = [c \in 1..Len(st_masks) |-> "free"]
    /\ st_pc = Idle
    /\ st_call = "none"
    /\ st_reader = 0
    /\ st_seen = NotSeen
    /\ st_pre = st_masks
    /\ st_post = st_new
    /\ st_built = [masks |-> st_masks, old |-> st_old, new |-> st_new]

StepIdle ==
    /\ st_masks = <<>>
    /\ st_old = <<>>
    /\ st_new = <<>>
    /\ st_lock = <<>>
    /\ st_pc = Idle
    /\ st_call = "none"
    /\ st_reader = 0
    /\ st_seen = NotSeen
    /\ st_pre = <<>>
    /\ st_post = <<>>
    /\ st_built = [masks |-> <<>>, old |-> <<>>, new |-> <<>>]

\* execute or revert is called: swap starts at the first chunk, or returns
\* at once when the terrain has no chunk.
SwapBegin(op) ==
    /\ st_pc = Idle
    /\ st_call' = op
    /\ st_pre' = st_masks
    /\ st_post' = st_new
    /\ st_pc' = IF Len(st_masks) = 0 THEN Idle ELSE [step |-> "data_ref", i |-> 1, k |-> 0]
    /\ UNCHANGED <<st_masks, st_old, st_new, st_lock, st_reader, st_seen, st_built,
                   besidesStep>>

StepExecute == SwapBegin("execute")

StepRevert == SwapBegin("revert")

\* chunk_mask.data_ref(): the lock of the chunk's mask is taken.
SwapDataRef ==
    /\ st_pc.step = "data_ref"
    /\ try_lock(st_lock, st_pc.i)
    /\ st_lock' = [st_lock EXCEPT ![st_pc.i] = "swap"]
    /\ st_pc' = [st_pc EXCEPT !.step = "pixels", !.k = 1]
    /\ UNCHANGED <<st_masks, st_old, st_new, st_call, st_reader, st_seen, st_pre, st_post,
                   st_built, besidesStep>>

\* One round of the pixel loop: *mask_pixel = *new_pixel.
SwapWritePixel ==
    /\ st_pc.step = "pixels"
    /\ st_pc.k <= Min(Len(st_masks[st_pc.i]), Len(st_new[st_pc.i]))
    /\ st_masks' = [st_masks EXCEPT ![st_pc.i][st_pc.k] = st_new[st_pc.i][st_pc.k]]
    /\ st_pc' = [st_pc EXCEPT !.k = @ + 1]
    /\ UNCHANGED <<st_old, st_new, st_lock, st_call, st_reader, st_seen, st_pre, st_post,
                   st_built, besidesStep>>

\* The pixel loop is over: std::mem::swap(old, new).
SwapExchange ==
    /\ st_pc.step = "pixels"
    /\ st_pc.k > Min(Len(st_masks[st_pc.i]), Len(st_new[st_pc.i]))
    /\ LET r == mem_swap(st_old[st_pc.i], st_new[st_pc.i])
       IN  /\ st_old' = [st_old EXCEPT ![st_pc.i] = r.a]
           /\ st_new' = [st_new EXCEPT ![st_pc.i] = r.b]
    /\ st_pc' = [st_pc EXCEPT !.step = "drop"]
    /\ UNCHANGED <<st_masks, st_lock, st_call, st_reader, st_seen, st_pre, st_post,
                   st_built, besidesStep>>

\* The end of the loop body: texture_data is dropped, which releases the
\* lock; the loop goes on with the next chunk or swap returns.
SwapDrop ==
    /\ st_pc.step = "drop"
    /\ st_lock' = [st_lock EXCEPT ![st_pc.i] = "free"]
    /\ st_pc' = IF st_pc.i = Len(st_masks) THEN Idle
                ELSE [step |-> "data_ref", i |-> st_pc.i + 1, k |-> 0]
    /\ UNCHANGED <<st_masks, st_old, st_new, st_call, st_reader, st_seen, st_pre, st_post,
                   st_built, besidesStep>>

\* The reader takes the lock of the mask of chunk c.
ReaderDataRef ==
    \E c \in 1..Len(st_masks) :
        /\ st_reader = 0
        /\ try_lock(st_lock, c)
        /\ st_lock' = [st_lock EXCEPT ![c] = "reader"]
        /\ st_reader' = c
        /\ UNCHANGED <<st_masks, st_old, st_new, st_pc, st_call, st_seen, st_pre, st_post,
                       st_built, besidesStep>>

\* The reader reads the buffer and drops its guard.
ReaderRead ==
    /\ st_reader # 0
    /\ st_seen' = [chunk |-> st_reader, data |-> st_masks[st_reader],
                   pre |-> st_pre[st_reader], post |-> st_post[st_reader]]
    /\ st_lock' = [st_lock EXCEPT ![st_reader] = "free"]
    /\ st_reader' = 0
    /\ UNCHANGED <<st_masks, st_old, st_new, st_pc, st_call, st_pre, st_post, st_built,
                   besidesStep>>

StepNext ==
    \/ StepExecute
    \/ StepRevert
    \/ SwapDataRef
    \/ SwapWritePixel
    \/ SwapExchange
    \/ SwapDrop
    \/ ReaderDataRef
    \/ ReaderRead

(***************************************************************************)
(* The specifications.                                                     *)
(***************************************************************************)
HeightNext == HeightExecute \/ HeightRevert

HeightSpecInit ==
    HeightInit /\ LayerIdle /\ MaskIdle /\ TrackIdle /\ CollIdle /\ ApplyIdle
        /\ CastIdle /\ BoundIdle /\ NodeIdle /\ MaterialIdle /\ StepIdle

SpecHeight == HeightSpecInit /\ [][HeightNext]_vars

LayerSpecInit ==
    LayerInit /\ HeightIdle /\ MaskIdle /\ TrackIdle /\ CollIdle /\ ApplyIdle
        /\ CastIdle /\ BoundIdle /\ NodeIdle /\ MaterialIdle /\ StepIdle

SpecLayers == LayerSpecInit /\ [][LayerNext]_vars

MaskSpecInit ==
    MaskInit /\ HeightIdle /\ LayerIdle /\ TrackIdle /\ CollIdle /\ ApplyIdle
        /\ CastIdle /\ BoundIdle /\ NodeIdle /\ MaterialIdle /\ StepIdle

SpecMask == MaskSpecInit /\ [][MaskNext]_vars

TrackSpecInit ==
    TrackInit /\ HeightIdle /\ LayerIdle /\ MaskIdle /\ CollIdle /\ ApplyIdle
        /\ CastIdle /\ BoundIdle /\ NodeIdle /\ MaterialIdle /\ StepIdle

SpecTrack == TrackSpecInit /\ [][TrackNext]_vars

CollSpecInit ==
    CollInit /\ HeightIdle /\ LayerIdle /\ MaskIdle /\ TrackIdle /\ ApplyIdle
        /\ CastIdle /\ BoundIdle /\ NodeIdle /\ MaterialIdle /\ StepIdle

SpecColl == CollSpecInit /\ [][CollNext]_vars

ApplySpecInit ==
    ApplyInit /\ HeightIdle /\ LayerIdle /\ MaskIdle /\ TrackIdle /\ CollIdle
        /\ CastIdle /\ BoundIdle /\ NodeIdle /\ MaterialIdle /\ StepIdle

SpecApply == ApplySpecInit /\ [][ApplyNext]_vars

CastSpecInit ==
    CastInit /\ HeightIdle /\ LayerIdle /\ MaskIdle /\ TrackIdle /\ CollIdle
        /\ ApplyIdle /\ BoundIdle /\ NodeIdle /\ MaterialIdle /\ StepIdle

SpecCast == CastSpecInit /\ [][CastNext]_vars

BoundSpecInit ==
    BoundInit /\ HeightIdle /\ LayerIdle /\ MaskIdle /\ TrackIdle /\ CollIdle
        /\ ApplyIdle /\ CastIdle /\ NodeIdle /\ MaterialIdle /\ StepIdle

SpecBound == BoundSpecInit /\ [][BoundNext]_vars

NodeSpecInit ==
    NodeInit /\ HeightIdle /\ LayerIdle /\ MaskIdle /\ TrackIdle /\ CollIdle
        /\ ApplyIdle /\ CastIdle /\ BoundIdle /\ MaterialIdle /\ StepIdle

SpecNode == NodeSpecInit /\ [][NodeNext]_vars

MaterialSpecInit ==
    MaterialInit /\ HeightIdle /\ LayerIdle /\ MaskIdle /\ TrackIdle
        /\ CollIdle /\ ApplyIdle /\ CastIdle /\ BoundIdle /\ NodeIdle
        /\ StepIdle

SpecMaterial == MaterialSpecInit /\ [][MaterialNext]_vars

StepSpecInit ==
    StepInit /\ HeightIdle /\ LayerIdle /\ MaskIdle /\ TrackIdle /\ CollIdle /\ ApplyIdle
        /\ CastIdle /\ BoundIdle /\ NodeIdle /\ MaterialIdle

SpecMaskSteps == StepSpecInit /\ [][StepNext]_vars

(***************************************************************************)
(* The claim about the height command.                                    *)
(***************************************************************************)
\* C1: when the command was built with one old and one new buffer per chunk
\* and the old buffers were the terrain's heightmaps, then under strictly
\* alternating execute, revert, execute, ... the terrain holds the new
\* snapshots after every execute and the old ones after every revert.
C1_HeightRoundTrip ==
    (/\ hAlternating
     /\ hBuilt.old = hBuilt.terrain
     /\ Len(hBuilt.new) = Len(hBuilt.terrain))
    => /\ (hCall = "execute" => terrain_heightmaps = hBuilt.new)
       /\ (hCall = "revert" => terrain_heightmaps = hBuilt.old)

C1_Witness ==
    /\ hAlternating
    /\ hCall = "revert"
    /\ hBuilt.old = hBuilt.terrain
    /\ hBuilt.terrain = <<<<1, 2>>, <<3, 4>>>>
    /\ hBuilt.new = <<<<9, 9>>, <<9, 9>>>>
    /\ terrain_heightmaps = <<<<1, 2>>, <<3, 4>>>>
    /\ old_heightmaps = hBuilt.old
    /\ new_heightmaps = hBuilt.new
(***************************************************************************)
(* The claims about the layer commands.                                    *)
(***************************************************************************)
\* The step is a call of op on command c, of the given kind, that returned.
IsCall(c, kind, op) ==
    /\ Len(cmds') = Len(cmds)
    /\ c \in 1..Len(cmds)
    /\ cmds[c].kind = kind
    /\ lCall' = [cmd |-> c, op |-> op]
    /\ ~lPanicked'

LastOf(s) == s[Len(s)]

\* C2: commands executed in order and reverted in the reverse order (each
\* execute of a command that is not executed, each revert of the command
\* executed last, none failing) leave the terrain, once all are reverted,
\* with the layers it had before the first execute, in the same order.
C2_LayerRoundTrip ==
    (lLinear /\ lStack = <<>>) => terrain_layers = lInitial

\* AddLayer, then DeleteLayer(last index), then both reverted.
C2_Witness ==
    /\ lLinear
    /\ lStack = <<>>
    /\ Len(lInitial) = 2
    /\ layer_chunks = 2
    /\ Len(cmds) = 2
    /\ cmds[1].kind = "Add"
    /\ cmds[2].kind = "Delete"
    /\ cmds[2].index = 2
    /\ lPrev = [cmd |-> 2, op |-> "revert"]
    /\ lCall = [cmd |-> 1, op |-> "revert"]

\* C3: AddTerrainLayerCommand.execute appends exactly one layer, the
\* command's, after the layers the terrain had, which stay as they were;
\* revert removes the last layer and stores it with its masks in the command;
\* an execute right after that revert appends that layer with those masks,
\* so that the terrain is back to what it was before the revert.
C3_AddAppendsAndRecovers ==
    [][\A c \in 1..Len(cmds) :
          /\ IsCall(c, "Add", "execute") =>
                /\ Len(terrain_layers') = Len(terrain_layers) + 1
                /\ SubSeq(terrain_layers', 1, Len(terrain_layers)) = terrain_layers
                /\ LastOf(terrain_layers').layer = cmds[c].layer
          /\ IsCall(c, "Add", "revert") =>
                /\ terrain_layers' = SubSeq(terrain_layers, 1, Len(terrain_layers) - 1)
                /\ cmds'[c].layer = LastOf(terrain_layers).layer
                /\ cmds'[c].masks = LastOf(terrain_layers).masks
          /\ (IsCall(c, "Add", "execute") /\ lCall = [cmd |-> c, op |-> "revert"]) =>
                /\ LastOf(terrain_layers') = [layer |-> cmds[c].layer, masks |-> cmds[c].masks]
                /\ terrain_layers' = lBefore
      ]_vars

\* execute, revert, execute of one AddTerrainLayerCommand on a terrain with
\* layers and chunks.
C3_Witness ==
    /\ lLinear
    /\ lSolo = 1
    /\ cmds[1].kind = "Add"
    /\ lPrev = [cmd |-> 1, op |-> "revert"]
    /\ lCall = [cmd |-> 1, op |-> "execute"]
    /\ Len(lInitial) = 2
    /\ layer_chunks = 2
    /\ terrain_layers = Append(lInitial, [layer |-> lMade[1], masks |-> <<5, 6>>])
    /\ next_texture = 7

\* C4: DeleteTerrainLayerCommand.execute removes exactly the layer at the
\* command's index and keeps that layer and its masks in the command; a
\* revert right after it puts them back at that index: the layer list is
\* the one before the execute.
C4_DeleteRemovesAndRestores ==
    [][\A c \in 1..Len(cmds) :
          /\ IsCall(c, "Delete", "execute") =>
                /\ cmds[c].index < Len(terrain_layers)
                /\ terrain_layers' = RemoveAt(terrain_layers, cmds[c].index + 1)
                /\ cmds'[c].layer = terrain_layers[cmds[c].index + 1].layer
                /\ cmds'[c].masks = terrain_layers[cmds[c].index + 1].masks
                /\ cmds'[c].index = cmds[c].index
          /\ (IsCall(c, "Delete", "revert") /\ lCall = [cmd |-> c, op |-> "execute"]) =>
                /\ terrain_layers' = lBefore
                /\ terrain_layers'[cmds[c].index + 1] =
                       [layer |-> cmds[c].layer, masks |-> cmds[c].masks]
      ]_vars

\* A layer that is not the last one was deleted and put back.
C4_Witness ==
    /\ Len(cmds) >= 1
    /\ cmds[1].kind = "Delete"
    /\ cmds[1].index = 0
    /\ lPrev = [cmd |-> 1, op |-> "execute"]
    /\ lCall = [cmd |-> 1, op |-> "revert"]
    /\ ~lPanicked
    /\ Len(lInitial) = 2
    /\ layer_chunks = 2
    /\ terrain_layers = lInitial

\* The textures a sequence of masks holds.
Textures(masks) == {masks[k] : k \in 1..Len(masks)}

\* C5: as long as the calls are execute, revert, execute, ... on one
\* AddTerrainLayerCommand, the command's layer is either in the command or in
\* the terrain's layer list, never in both and never in neither, and so are
\* its masks.
C5_AddOwnership ==
    \A c \in 1..Len(cmds) :
        (cmds[c].kind = "Add" /\ lSolo \in {0, c} /\ lLinear) =>
            LET inTerrain == {i \in 1..Len(terrain_layers) :
                                 terrain_layers[i].layer = lMade[c]}
            IN  /\ (cmds[c].layer # None) <=> (inTerrain = {})
                /\ cmds[c].layer \in {None, lMade[c]}
                /\ Cardinality(inTerrain) <= 1
                /\ \A i \in 1..Len(terrain_layers) :
                      Textures(cmds[c].masks) \cap Textures(terrain_layers[i].masks) = {}
                /\ inTerrain # {} => cmds[c].masks = <<>>
                /\ lCall.op = "revert" => Len(cmds[c].masks) = layer_chunks
                /\ \A i \in inTerrain : Len(terrain_layers[i].masks) = layer_chunks

\* After execute, revert: the command holds the layer and its masks.
C5_Witness ==
    /\ lLinear
    /\ lSolo = 1
    /\ cmds[1].kind = "Add"
    /\ lCall = [cmd |-> 1, op |-> "revert"]
    /\ cmds[1].layer = lMade[1]
    /\ cmds[1].masks = <<3, 4>>
    /\ Len(lInitial) = 1
    /\ terrain_layers = lInitial
(***************************************************************************)
(* The claims about the mask command.                                      *)
(***************************************************************************)
\* The command was built with one old and one new buffer per chunk, each as
\* long as the live mask of the chosen layer, the old ones equal to it.
MaskBuiltWell ==
    /\ Len(mBuilt.old) = Len(mBuilt.terrain)
    /\ Len(mBuilt.new) = Len(mBuilt.terrain)
    /\ \A i \in 1..Len(mBuilt.terrain) :
          /\ mask_layer < Len(mBuilt.terrain[i])
          /\ mBuilt.old[i] = mBuilt.terrain[i][mask_layer + 1].data
          /\ Len(mBuilt.new[i]) = Len(mBuilt.terrain[i][mask_layer + 1].data)

\* C6: for a command built that way, under strictly alternating execute,
\* revert, ... the chosen layer's mask holds in every chunk the new snapshot
\* after every execute and the old one after every revert; the textures are
\* the ones the terrain had (overwritten, not replaced), and the masks of the
\* other layers are untouched.
C6_MaskRoundTrip ==
    (mAlternating /\ MaskBuiltWell) =>
        /\ ~mPanicked
        /\ Len(mask_chunks) = Len(mBuilt.terrain)
        /\ \A i \in 1..Len(mask_chunks) :
              /\ Len(mask_chunks[i]) = Len(mBuilt.terrain[i])
              /\ \A l \in 1..Len(mask_chunks[i]) :
                    /\ mask_chunks[i][l].id = mBuilt.terrain[i][l].id
                    /\ l # mask_layer + 1 => mask_chunks[i][l] = mBuilt.terrain[i][l]
              /\ mCall = "execute" => mask_chunks[i][mask_layer + 1].data = mBuilt.new[i]
              /\ mCall = "revert" => mask_chunks[i][mask_layer + 1].data = mBuilt.old[i]

\* Two chunks, the first layer's masks <<1, 2>> and <<3, 3>>, exchanged by
\* the command; after execute, revert, the terrain is as it was.
C6_Witness ==
    /\ mAlternating
    /\ MaskBuiltWell
    /\ mCall = "revert"
    /\ mask_layer = 0
    /\ mBuilt.old = <<<<1, 2>>, <<3, 3>>>>
    /\ mBuilt.new = <<<<3, 3>>, <<1, 2>>>>
    /\ mask_chunks = mBuilt.terrain
    /\ old_masks = mBuilt.old
    /\ new_masks = mBuilt.new
(***************************************************************************)
(* The claims about TrackValue.                                            *)
(***************************************************************************)
\* C10: for two TrackValues of different variants, interpolate returns None
\* and blend_with leaves the value it is called on unchanged, for every
\* coefficient and weight.
C10_MismatchedVariants ==
    (tvBefore.variant # tv_other.variant) =>
        /\ tvOp = "interpolate" => (tv_result = NoneOf /\ tv_self = tvBefore)
        /\ tvOp = "blend_with" => tv_self = tvBefore

C10_Witness ==
    /\ tvOp = "interpolate"
    /\ tvBefore = Vector3(<<1, 2, 3>>)
    /\ tv_other = Real(3)
    /\ tv_weight = 2
    /\ tv_result = NoneOf
(***************************************************************************)
(* The claims about BoundValueCollection.                                  *)
(***************************************************************************)
\* The position of the first entry of values with the binding (0: none).
FirstWith(values, binding) ==
    LET found == {k \in 1..Len(values) : values[k].binding = binding}
    IN  IF found = {} THEN 0 ELSE CHOOSE k \in found : \A m \in found : k <= m

\* The positions of the entries of self whose binding some entry of other has.
Shared(self, other) == {i \in 1..Len(self) : FirstWith(other, self[i].binding) # 0}

\* C7: interpolate returns a collection with one entry for exactly the
\* entries of self whose binding an entry of other has, in self's order, each
\* the interpolation of the self entry with the first entry of other that has
\* its binding.
C7_InterpolateIntersection ==
    cOp = "interpolate" =>
        LET both == Shared(cBefore.self, cBefore.other)
        IN  /\ ~cPanicked
            /\ Len(coll_result) = Cardinality(both)
            /\ \A i \in both :
                  LET k == Cardinality({m \in both : m <= i})
                      j == FirstWith(cBefore.other, cBefore.self[i].binding)
                  IN  /\ coll_result[k].binding = cBefore.self[i].binding
                      /\ Some(coll_result[k].value) =
                             TrackValue_interpolate(cBefore.self[i].value,
                                                    cBefore.other[j].value, coll_weight)

\* No entry of self has a counterpart of another variant in other.
NoMismatch(self, other) ==
    \A i \in Shared(self, other) :
        self[i].value.variant = other[FirstWith(other, self[i].binding)].value.variant

\* C7, where it holds: on collections without such a pair of entries.
C7_WithoutMismatch ==
    NoMismatch(cBefore.self, cBefore.other) => C7_InterpolateIntersection

\* C8: blend_with keeps self's length, order and bindings; an entry whose
\* binding no entry of other has is unchanged, every other entry is blended
\* with the first entry of other that has its binding; other is unchanged.
C8_BlendWithFrame ==
    cOp = "blend_with" =>
        /\ ~cPanicked
        /\ coll_other = cBefore.other
        /\ Len(coll_self) = Len(cBefore.self)
        /\ \A i \in 1..Len(coll_self) :
              LET j == FirstWith(cBefore.other, cBefore.self[i].binding)
              IN  /\ coll_self[i].binding = cBefore.self[i].binding
                  /\ j = 0 => coll_self[i] = cBefore.self[i]
                  /\ j # 0 => coll_self[i].value =
                                  TrackValue_blend_with(cBefore.self[i].value,
                                                        cBefore.other[j].value, coll_weight)

\* Self holds Position and Scale, other two entries bound to Position: the
\* Position of self is blended with the first of them, the Scale is as it was.
C8_Witness ==
    /\ cOp = "blend_with"
    /\ coll_weight = 2
    /\ cBefore.self = <<BoundValue(Position, Vector3(<<1, 2, 3>>)),
                        BoundValue(Scale, Vector3(<<2, 2, 2>>))>>
    /\ cBefore.other = <<BoundValue(Position, Vector3(<<3, 2, 1>>)),
                         BoundValue(Position, Vector3(<<7, 7, 7>>))>>
    /\ coll_self = <<BoundValue(Position, Vector3(<<7, 6, 5>>)),
                     BoundValue(Scale, Vector3(<<2, 2, 2>>))>>
(***************************************************************************)
(* The claims about BoundValueCollection::apply.                           *)
(***************************************************************************)
\* Entry i of the values is bound to a property the node has no field for.
MissingPath(values, i, n) ==
    /\ values[i].binding.kind = "Property"
    /\ values[i].binding.name \notin DOMAIN n.fields

\* C9: when one entry of the collection is bound to a property whose path
\* the node does not have, apply logs exactly one error for that entry and
\* leaves the node as apply on the collection without that entry leaves it.
C9_MissingPathLogsOnce ==
    aOp = "apply" =>
        \A i \in 1..Len(apply_values) :
            MissingPath(apply_values, i, aBefore) =>
                LET rest == BoundValueCollection_apply(RemoveAt(apply_values, i),
                                                       aBefore, <<>>)
                IN  /\ node = rest.node
                    /\ Len(log) = Len(rest.log) + 1

\* C9, where it holds: when the value of every such entry has the shape its
\* binding declares.
C9_WhenCastSucceeds ==
    (\A i \in 1..Len(apply_values) :
        MissingPath(apply_values, i, aBefore) =>
            numeric_type_cast(apply_values[i].value,
                              apply_values[i].binding.value_type) # NoneOf)
        => C9_MissingPathLogsOnce
\* The positions of the entries of self whose first counterpart in other
\* holds a value of the same variant.
Interpolable(self, other) ==
    {i \in Shared(self, other) :
        self[i].value.variant = other[FirstWith(other, self[i].binding)].value.variant}

\* C11: interpolate on collections never panics: an entry of self whose
\* counterpart in other holds a value of another variant is dropped from the
\* result, which holds one entry for each of the other shared entries.
C11_CrossVariantNeverPanics ==
    cOp = "interpolate" =>
        /\ ~cPanicked
        /\ Len(coll_result) = Cardinality(Interpolable(cBefore.self, cBefore.other))
(***************************************************************************)
(* The claims about TrackValue.                                            *)
(***************************************************************************)
\* The variants that hold reals or vectors of reals.
Linear == {"Real", "Vector2", "Vector3", "Vector4"}

ScalarTagNames ==
    {"Bool", "F32", "F64", "U64", "I64", "U32", "I32", "U16", "I16", "U8", "I8"}

Vector2TagNames ==
    {"Vector2Bool", "Vector2F32", "Vector2F64", "Vector2U64", "Vector2I64", "Vector2U32",
     "Vector2I32", "Vector2U16", "Vector2I16", "Vector2U8", "Vector2I8"}

Vector3TagNames ==
    {"Vector3Bool", "Vector3F32", "Vector3F64", "Vector3U64", "Vector3I64", "Vector3U32",
     "Vector3I32", "Vector3U16", "Vector3I16", "Vector3U8", "Vector3I8"}

Vector4TagNames ==
    {"Vector4Bool", "Vector4F32", "Vector4F64", "Vector4U64", "Vector4I64", "Vector4U32",
     "Vector4I32", "Vector4U16", "Vector4I16", "Vector4U8", "Vector4I8"}

QuaternionTagNames == {"UnitQuaternionF32", "UnitQuaternionF64"}

SameShape(variant, tag) ==
    \/ variant = "Real" /\ tag \in ScalarTagNames
    \/ variant = "Vector2" /\ tag \in Vector2TagNames
    \/ variant = "Vector3" /\ tag \in Vector3TagNames
    \/ variant = "Vector4" /\ tag \in Vector4TagNames
    \/ variant = "UnitQuaternion" /\ tag \in QuaternionTagNames

\* C13: numeric_type_cast returns Some exactly when the tag has the shape of
\* the value (Real: the 11 scalar tags, Vector2/3/4: the 11 tags of that
\* dimension, UnitQuaternion: the 2 quaternion tags), and None otherwise.
C13_CastSomeIffSameShape ==
    castOp = "cast" =>
        /\ cast_type \in ScalarTagNames \cup Vector2TagNames \cup Vector3TagNames
                             \cup Vector4TagNames \cup QuaternionTagNames
        /\ (cast_result # NoneOf) <=> SameShape(cast_value.variant, cast_type)
        /\ cast_result # NoneOf => cast_result[1].type = cast_type

\* A Vector3 cast to Vector2F32 gives None.
C13_Witness ==
    /\ castOp = "cast"
    /\ cast_value = Vector3(<<1, 2, 3>>)
    /\ cast_type = "Vector2F32"
    /\ cast_result = NoneOf

\* The whole number n is the real num/den (den > 0) rounded toward zero.
IsTruncation(n, num, den) ==
    IF num >= 0 THEN n >= 0 /\ n * den <= num /\ num < (n + 1) * den
    ELSE n <= 0 /\ n * den >= num /\ num > (n - 1) * den

\* The range of the 8 and 16 bit integer types.
RangeOf(p) ==
    CASE p = "U8" -> [lo |-> 0, hi |-> 255]
      [] p = "I8" -> [lo |-> -128, hi |-> 127]
      [] p = "U16" -> [lo |-> 0, hi |-> 65535]
      [] p = "I16" -> [lo |-> -32768, hi |-> 32767]

\* The whole number r is what `as` makes of the real num/den for the integer
\* type p: the truncation when the type can hold it, the nearest end of the
\* type's range otherwise (the reals of the model are below the upper ends
\* of the 32 and 64 bit types).
IsConversion(r, num, den, p) ==
    \E n \in ((num \div den) - 1)..((num \div den) + 1) :
        /\ IsTruncation(n, num, den)
        /\ CASE p \in {"U8", "I8", "U16", "I16"} ->
                    r = IF n < RangeOf(p).lo THEN RangeOf(p).lo
                        ELSE IF n > RangeOf(p).hi THEN RangeOf(p).hi ELSE n
             [] p \in {"U32", "U64"} -> r = IF n < 0 THEN 0 ELSE n
             [] p \in {"I32", "I64"} -> r = n

\* C14: the conversion of a real x to an integer tag is x truncated toward
\* zero and saturated to the range of the type; to the Bool tag it is
\* (x != 0); the components of a vector are converted in the same way.
C14_TruncatesAndSaturates ==
    /\ castOp = "as" =>
          /\ as_prim = "Bool" =>
                as_result = [num |-> IF as_num # 0 THEN 1 ELSE 0, den |-> 1]
          /\ as_prim \notin {"Bool", "F32", "F64"} =>
                /\ as_result.den = 1
                /\ IsConversion(as_result.num, as_num, as_den, as_prim)
    /\ (castOp = "cast" /\ cast_result # NoneOf /\ cast_value.variant # "UnitQuaternion") =>
          \E p \in ScalarTagNames :
              /\ cast_type = PrefixOf(cast_value.variant) \o p
              /\ Len(cast_result[1].v) = Len(cast_value.v)
              /\ \A k \in 1..Len(cast_value.v) :
                    /\ p = "Bool" => cast_result[1].v[k] = IF cast_value.v[k] # 0 THEN 1 ELSE 0
                    /\ p \notin {"Bool", "F32", "F64"} =>
                          IsConversion(cast_result[1].v[k], cast_value.v[k], 1, p)

\* 5.7 converted to I32 is 5.
C14_Witness ==
    /\ castOp = "as"
    /\ as_num = 57
    /\ as_den = 10
    /\ as_prim = "I32"
    /\ as_result = [num |-> 5, den |-> 1]

\* -5.7 converted to U8 is 0, and 256 is 255.
C14_WitnessSaturated ==
    /\ castOp = "as"
    /\ as_prim = "U8"
    /\ \/ as_num = -57 /\ as_den = 10 /\ as_result.num = 0
       \/ as_num = 2560 /\ as_den = 10 /\ as_result.num = 255
\* C15: for a and b of the same variant, a.blend_with(b, w) sets a to
\* a + b * w component by component for Real and the vectors (so weight 0
\* leaves a as it was) and to nlerp(a, b, w) for UnitQuaternion; b is not
\* modified.
C15_BlendAddsWeighted ==
    [][(tvOp' = "blend_with" /\ tvOp = "none" /\ tv_self.variant = tv_other.variant) =>
          /\ tv_other' = tv_other
          /\ tv_self'.variant = tv_self.variant
          /\ Len(tv_self'.v) = Len(tv_self.v)
          /\ tv_self.variant \in Linear =>
                /\ \A k \in 1..Len(tv_self.v) :
                      tv_self'.v[k] = tv_self.v[k] + tv_other.v[k] * tv_weight
                /\ tv_weight = 0 => tv_self' = tv_self
          /\ tv_self.variant = "UnitQuaternion" =>
                tv_self'.v = nlerp(tv_self.v, tv_other.v, tv_weight)]_vars

\* (1, 2, 3) blended with (1, 2, 3) at weight 2 is (3, 6, 9).
C15_Witness ==
    /\ tvOp = "blend_with"
    /\ tvBefore = Vector3(<<1, 2, 3>>)
    /\ tv_other = Vector3(<<1, 2, 3>>)
    /\ tv_weight = 2
    /\ tv_self = Vector3(<<3, 6, 9>>)
\* C16: weighted_clone returns a value of the same variant, scaled component
\* by component for Real and the vectors and unchanged for UnitQuaternion;
\* on a collection it returns a collection of the same length with the same
\* bindings in the same order; the original is untouched.
C16_WeightedClone ==
    cOp = "weighted_clone" =>
        /\ ~cPanicked
        /\ coll_self = cBefore.self
        /\ Len(coll_result) = Len(coll_self)
        /\ \A i \in 1..Len(coll_self) :
              LET original == coll_self[i].value
                  clone == coll_result[i].value
              IN  /\ coll_result[i].binding = coll_self[i].binding
                  /\ clone.variant = original.variant
                  /\ Len(clone.v) = Len(original.v)
                  /\ original.variant \in Linear =>
                        \A k \in 1..Len(original.v) : clone.v[k] = original.v[k] * coll_weight
                  /\ original.variant = "UnitQuaternion" => clone = original

\* The clone at weight 2 of a position and a rotation: the position is
\* doubled, the rotation is as it was.
C16_Witness ==
    /\ cOp = "weighted_clone"
    /\ coll_weight = 2
    /\ coll_self = <<BoundValue(Position, Vector3(<<1, 2, 3>>)),
                     BoundValue(Rotation, UnitQuaternion(<<1, 0, 0, 0>>))>>
    /\ coll_result = <<BoundValue(Position, Vector3(<<2, 4, 6>>)),
                       BoundValue(Rotation, UnitQuaternion(<<1, 0, 0, 0>>))>>
(***************************************************************************)
(* The claims about BoundValue.                                            *)
(***************************************************************************)
\* C17: blend_with and interpolate on two BoundValues with unequal bindings
\* fail their assertion before any value is touched (self is unchanged, no
\* result is produced); with equal bindings they do what the TrackValue
\* operation does and keep the binding.
C17_BindingsAsserted ==
    bvOp \in {"blend_with", "interpolate"} =>
        /\ bvBefore.binding # bv_other.binding =>
              /\ bvPanicked
              /\ bv_self = bvBefore
              /\ bv_result = NoneOf
        /\ bvBefore.binding = bv_other.binding =>
              /\ ~bvPanicked
              /\ bv_self.binding = bvBefore.binding
              /\ bvOp = "blend_with" =>
                    bv_self.value = TrackValue_blend_with(bvBefore.value, bv_other.value,
                                                          bv_weight)
              /\ bvOp = "interpolate" =>
                    LET r == TrackValue_interpolate(bvBefore.value, bv_other.value, bv_weight)
                    IN  /\ bv_self = bvBefore
                        /\ Len(bv_result) = Len(r)
                        /\ r # NoneOf =>
                              /\ bv_result[1].binding = bvBefore.binding
                              /\ bv_result[1].value = r[1]

\* Two properties of the same path and different value types: the bindings
\* are unequal, blend_with fails and self is as it was.
C17_Witness ==
    /\ bvOp = "blend_with"
    /\ bvBefore = BoundValue(Property("p", "F32"), Real(4))
    /\ bv_other = BoundValue(Property("p", "I32"), Real(6))
    /\ bvPanicked
    /\ bv_self = bvBefore

\* Equal bindings: the position is blended.
C17_WitnessEqual ==
    /\ bvOp = "blend_with"
    /\ bvBefore = BoundValue(Position, Vector3(<<1, 2, 3>>))
    /\ bv_other = BoundValue(Position, Vector3(<<3, 2, 1>>))
    /\ bv_weight = 1
    /\ ~bvPanicked
    /\ bv_self = BoundValue(Position, Vector3(<<4, 4, 4>>))
(***************************************************************************)
(* The claims about Node.                                                  *)
(***************************************************************************)
\* C18: cast<T> and cast_mut<T> return a reference to the node exactly when
\* its concrete type is T, and None, without a panic and with the node
\* unchanged, for every other T; an accessor as_X or as_X_mut panics exactly
\* when the cast it is built on returns None.
C18_CastExactlyOwnType ==
    /\ nd_node = ndBefore
    /\ ndOp \in {"cast", "cast_mut"} =>
          /\ ~ndPanicked
          /\ nd_node.type = nd_type => nd_result = Some(nd_node)
          /\ nd_node.type # nd_type => nd_result = NoneOf
    /\ ndOp \in {"as", "as_mut"} =>
          /\ ndPanicked <=> nd_node.type # AccessorType[nd_accessor]
          /\ ~ndPanicked => nd_result = Some(nd_node)

\* A mesh asked for as a Terrain: None and no panic.
C18_Witness ==
    /\ ndOp = "cast"
    /\ nd_node.type = "Mesh"
    /\ nd_type = "Terrain"
    /\ nd_result = NoneOf
    /\ ~ndPanicked

\* A mesh asked for through as_terrain: the panic.
C18_WitnessPanic ==
    /\ ndOp = "as"
    /\ nd_node.type = "Mesh"
    /\ nd_accessor = "terrain"
    /\ ndPanicked
\* The entry cannot be written to the node n: a transform binding with a
\* value of another variant, or a property whose value has not the shape of
\* its value_type, whose path the node does not have, or whose field is of
\* another type.
NotWritable(entry, n) ==
    CASE entry.binding.kind \in {"Position", "Scale"} -> entry.value.variant # "Vector3"
      [] entry.binding.kind = "Rotation" -> entry.value.variant # "UnitQuaternion"
      [] entry.binding.kind = "Property" ->
            \/ ~SameShape(entry.value.variant, entry.binding.value_type)
            \/ entry.binding.name \notin DOMAIN n.fields
            \/ n.fields[entry.binding.name].type # entry.binding.value_type

\* C19: every entry apply cannot write is logged and skipped, the property
\* entries whose value has not the shape of their value_type among them: the
\* log holds one message for each such entry.
C19_EveryFailureLogged ==
    aOp = "apply" =>
        Len(log) = Cardinality({i \in 1..Len(apply_values) :
                                    NotWritable(apply_values[i], aBefore)})

\* The value of the last entry of the values with that binding kind and
\* variant, or the default when there is none.
LastWritten(values, kind, variant, default) ==
    LET written == {i \in 1..Len(values) :
                        values[i].binding.kind = kind /\ values[i].value.variant = variant}
    IN  IF written = {} THEN default
        ELSE values[CHOOSE i \in written : \A m \in written : m <= i].value.v

\* How many entries of the values have that binding kind and another variant.
Mismatched(values, kind, variant) ==
    Cardinality({i \in 1..Len(values) :
                    values[i].binding.kind = kind /\ values[i].value.variant # variant})

\* How often the message is in the log.
Logged(message) == Cardinality({k \in 1..Len(log) : log[k] = message})

\* C20: an entry bound to Position (Scale) sets the local position (scale)
\* exactly when its value is a Vector3, an entry bound to Rotation sets the
\* local rotation exactly when its value is a UnitQuaternion; for any other
\* variant an error is logged and the transform is left as it was.
C20_TransformBindings ==
    aOp = "apply" =>
        /\ node.position = LastWritten(apply_values, "Position", "Vector3", aBefore.position)
        /\ node.scale = LastWritten(apply_values, "Scale", "Vector3", aBefore.scale)
        /\ node.rotation =
               LastWritten(apply_values, "Rotation", "UnitQuaternion", aBefore.rotation)
        /\ Logged("Unable to apply position, because underlying type is not Vector3!") =
               Mismatched(apply_values, "Position", "Vector3")
        /\ Logged("Unable to apply scaling, because underlying type is not Vector3!") =
               Mismatched(apply_values, "Scale", "Vector3")
        /\ Logged("Unable to apply rotation, because underlying type is not UnitQuaternion!") =
               Mismatched(apply_values, "Rotation", "UnitQuaternion")

\* A position given as a real, then a scale and a rotation of the right
\* variants: one error, the position as it was, scale and rotation set.
C20_Witness ==
    /\ aOp = "apply"
    /\ apply_values = <<BoundValue(Position, Real(5)),
                        BoundValue(Scale, Vector3(<<2, 2, 2>>)),
                        BoundValue(Rotation, UnitQuaternion(<<0, 0, 0, 1>>))>>
    /\ node.position = <<0, 0, 0>>
    /\ node.scale = <<2, 2, 2>>
    /\ node.rotation = <<0, 0, 0, 1>>
    /\ log = <<"Unable to apply position, because underlying type is not Vector3!">>
(***************************************************************************)
(* Further claims about the height and mask commands.                      *)
(***************************************************************************)
\* C21: a command that holds another number of snapshots than the terrain
\* has chunks fails on execute and revert instead of updating a part of the
\* terrain: a call that returned was made with one old and one new snapshot
\* for every chunk.
C21_ChunkCountMismatchFails ==
    hCall # "none" =>
        /\ Len(old_heightmaps) = Len(terrain_heightmaps)
        /\ Len(new_heightmaps) = Len(terrain_heightmaps)

\* What the code does instead: the call returns with the chunks that have
\* snapshots rewritten and the other chunks as they were.
C21_SilentlyTruncated ==
    /\ hCall = "execute"
    /\ hAlternating
    /\ hBuilt.terrain = <<<<1, 2>>, <<3, 4>>>>
    /\ hBuilt.old = <<<<1, 2>>>>
    /\ hBuilt.new = <<<<9, 9>>>>
    /\ terrain_heightmaps = <<<<9, 9>>, <<3, 4>>>>
(***************************************************************************)
(* The claim about Material.                                               *)
(***************************************************************************)
\* C22: set_property replaces the value of a property only when the name
\* exists and the new value has the variant of the stored one; an unknown
\* name gives NoSuchProperty and another variant TypeMismatch, both with
\* every property unchanged; after any calls the property names and the
\* variant of each property are those from_shader created.
C22_SetPropertyTyped ==
    /\ DOMAIN mat_properties = DOMAIN mat_created
    /\ \A n \in DOMAIN mat_properties : mat_properties[n].variant = mat_created[n].variant
    /\ mat_call # NoSet =>
          LET name == mat_call.name
              new_value == mat_call.new_value
          IN  /\ name \notin DOMAIN mat_before =>
                    /\ mat_result.kind = "NoSuchProperty"
                    /\ mat_properties = mat_before
              /\ (name \in DOMAIN mat_before /\ mat_before[name].variant # new_value.variant) =>
                    /\ mat_result.kind = "TypeMismatch"
                    /\ mat_properties = mat_before
              /\ (name \in DOMAIN mat_before /\ mat_before[name].variant = new_value.variant) =>
                    /\ mat_result.kind = "Ok"
                    /\ mat_properties[name] = new_value
                    /\ \A n \in DOMAIN mat_before \ {name} :
                          mat_properties[n] = mat_before[n]

\* A Float given to diffuseColor after the color was set to red: the call
\* returns TypeMismatch and the color is still red.
C22_Witness ==
    /\ mat_call = [name |-> "diffuseColor", new_value |-> PropertyValue("Float", <<1>>)]
    /\ mat_result.kind = "TypeMismatch"
    /\ "diffuseColor" \in DOMAIN mat_properties
    /\ mat_properties["diffuseColor"] = PropertyValue("Color", <<255, 0, 0, 255>>)
    /\ mat_properties = mat_before
\* C23: a reader that reaches a mask buffer through its lock never reads a
\* partly overwritten buffer: what it reads is the whole buffer of before
\* the swap or the whole buffer of after it.
C23_ReaderSeesWholeMask ==
    st_seen.chunk # 0 => (st_seen.data = st_seen.pre \/ st_seen.data = st_seen.post)

\* The reader has read a mask whose swap was over while swap was still
\* under way on the terrain: it read the whole new buffer.
C23_Witness ==
    /\ st_call = "execute"
    /\ st_seen.chunk # 0
    /\ st_seen.pre # st_seen.post
    /\ st_seen.data = st_seen.post
    /\ st_pc.step # "idle"

\* The pre-edit value of a chunk's mask: the live buffer at construction.
PreEdit(i) == st_built.masks[i]

\* C26 as stated: at every instant exactly one of the old snapshot and the
\* live buffer holds the pre-edit mask value.
C26_ExactlyOneOfOldAndLive ==
    \A i \in 1..Len(st_masks) : (st_old[i] = PreEdit(i)) # (st_masks[i] = PreEdit(i))

\* C26 amended: at every instant the pre-edit mask value of every chunk is
\* held by one of the command's two slots, and by exactly one of them when
\* the edit changes the chunk; between the calls the old slot holds what
\* the live buffer holds.
C26_PreEditInOneSlot ==
    \A i \in 1..Len(st_masks) :
        /\ st_old[i] = PreEdit(i) \/ st_new[i] = PreEdit(i)
        /\ st_built.new[i] # st_built.old[i]
               => ((st_old[i] = PreEdit(i)) # (st_new[i] = PreEdit(i)))
        /\ st_pc = Idle => st_old[i] = st_masks[i]

\* In the middle of execute: the first chunk is overwritten and its slots
\* are exchanged, the second chunk is still as before the edit.
C26_Witness ==
    /\ st_call = "execute"
    /\ st_pc.step = "data_ref"
    /\ st_pc.i = 2
    /\ st_built.new[1] # st_built.old[1]
    /\ st_new[1] = PreEdit(1)
    /\ st_masks[1] = st_old[1]
    /\ st_old[2] = PreEdit(2)
    /\ st_masks[2] = PreEdit(2)
\* The type an accessor's name stands for: that of its define_is_as! line,
\* but DirectionalLight for is_directional_light, as_directional_light and
\* as_directional_light_mut.
NamedType(X) == IF X = "directional_light" THEN "DirectionalLight" ELSE AccessorType[X]

\* C24: for every accessor, is_X is true exactly when the node's concrete
\* type is the one X names, and as_X and as_X_mut return the node exactly
\* then and panic otherwise; for directional_light that type is
\* DirectionalLight.
C24_AccessorsMatchTheirName ==
    /\ ndOp = "is" => (nd_is <=> nd_node.type = NamedType(nd_accessor))
    /\ ndOp \in {"as", "as_mut"} =>
           /\ ndPanicked <=> nd_node.type # NamedType(nd_accessor)
           /\ ~ndPanicked => nd_result = Some(nd_node)

\* as_directional_light() has panicked on a DirectionalLight node.
C24_DirectionalLightPanics ==
    /\ ndOp = "as"
    /\ nd_accessor = "directional_light"
    /\ nd_node.type = "DirectionalLight"
    /\ ndPanicked

\* is_directional_light() has answered true on a PointLight node.
C24_PointLightIsDirectional ==
    /\ ndOp = "is"
    /\ nd_accessor = "directional_light"
    /\ nd_node.type = "PointLight"
    /\ nd_is

\* Every other accessor matches its name.
C24_OtherAccessorsMatch ==
    nd_accessor # "directional_light" =>
        /\ ndOp = "is" => (nd_is <=> nd_node.type = NamedType(nd_accessor))
        /\ ndOp \in {"as", "as_mut"} =>
               /\ ndPanicked <=> nd_node.type # NamedType(nd_accessor)
               /\ ~ndPanicked => nd_result = Some(nd_node)
(***************************************************************************)
(* Further claims about the collections and the nodes.                     *)
(***************************************************************************)
\* The entries of the values that write the field of that path of a node:
\* property entries with that path whose value casts to their value_type,
\* which is the field's type.
WritersOf(values, n, path) ==
    {i \in 1..Len(values) :
        /\ values[i].binding.kind = "Property"
        /\ values[i].binding.name = path
        /\ numeric_type_cast(values[i].value, values[i].binding.value_type) # NoneOf
        /\ values[i].binding.value_type = n.fields[path].type}

\* The field of that path after the values were applied in their order: the
\* cast value of the last entry that writes it, or the field as it was.
LastField(values, n, path) ==
    LET writers == WritersOf(values, n, path)
    IN  IF writers = {} THEN n.fields[path]
        ELSE LET last == CHOOSE i \in writers : \A m \in writers : m <= i
             IN  numeric_type_cast(values[last].value, values[last].binding.value_type)[1]

\* C25: apply takes the entries in the order of the collection, so of the
\* entries that write the same target the last one wins, and the node after
\* apply is determined by the collection and the node before it.
C25_LastEntryWins ==
    aOp = "apply" =>
        /\ node.position = LastWritten(apply_values, "Position", "Vector3", aBefore.position)
        /\ node.scale = LastWritten(apply_values, "Scale", "Vector3", aBefore.scale)
        /\ node.rotation =
               LastWritten(apply_values, "Rotation", "UnitQuaternion", aBefore.rotation)
        /\ DOMAIN node.fields = DOMAIN aBefore.fields
        /\ \A path \in DOMAIN aBefore.fields :
               node.fields[path] = LastField(apply_values, aBefore, path)

\* Two positions with a property between them: the second position is the
\* node's.
C25_Witness ==
    /\ aOp = "apply"
    /\ apply_values = <<BoundValue(Position, Vector3(<<1, 2, 3>>)),
                        BoundValue(Property("depth_offset", "F32"), Real(4)),
                        BoundValue(Position, Vector3(<<7, 7, 7>>))>>
    /\ node.position = <<7, 7, 7>>
    /\ node.fields["depth_offset"] = Box("F32", <<4>>)

\* Two values of the same property: the second one is the field's.
C25_WitnessProperty ==
    /\ aOp = "apply"
    /\ apply_values = <<BoundValue(Property("depth_offset", "F32"), Real(4)),
                        BoundValue(Property("depth_offset", "F32"), Real(8))>>
    /\ node.fields["depth_offset"] = Box("F32", <<8>>)
\* C27: the collections pair an entry only with an entry of an equal
\* binding, so BoundValue's assertion on the bindings never fails under
\* the collection's blend_with and interpolate.
C27_CollectionsNeverAssert ==
    cOp \in {"blend_with", "interpolate"} => ~cAsserted

\* interpolate with a property on each side of the same path and another
\* value_type, and a position on each side of another variant: the
\* properties are not paired, and the call panics on the unwrap of the
\* positions' None, not on the assertion.
C27_Witness ==
    /\ cOp = "interpolate"
    /\ cBefore.self = <<BoundValue(Property("p", "F32"), Real(4)),
                        BoundValue(Position, Vector3(<<1, 2, 3>>))>>
    /\ cBefore.other = <<BoundValue(Property("p", "I32"), Real(6)),
                         BoundValue(Position, Real(5))>>
    /\ cPanicked
    /\ ~cAsserted

\* The property entries of self whose path other has only under another
\* value_type.
OtherTypeOnly(self, other) ==
    {i \in 1..Len(self) :
        /\ self[i].binding.kind = "Property"
        /\ \E j \in 1..Len(other) :
               /\ other[j].binding.kind = "Property"
               /\ other[j].binding.name = self[i].binding.name
               /\ other[j].binding.value_type # self[i].binding.value_type
        /\ \A j \in 1..Len(other) : other[j].binding # self[i].binding}

\* C28: two Property bindings of the same path and different value_type are
\* different slots: blend_with leaves such an entry of self unblended and
\* interpolate leaves it out of its result.
C28_ValueTypeSeparatesSlots ==
    /\ cOp = "blend_with" =>
           /\ ~cPanicked
           /\ \A i \in OtherTypeOnly(cBefore.self, cBefore.other) :
                  coll_self[i] = cBefore.self[i]
    /\ (cOp = "interpolate" /\ ~cPanicked) =>
           \A i \in OtherTypeOnly(cBefore.self, cBefore.other) :
               \A k \in 1..Len(coll_result) :
                   coll_result[k].binding # cBefore.self[i].binding

\* blend_with of a property of value_type F32 with the same path under I32,
\* with a weight that would change the value: the entry is as it was.
C28_Witness ==
    /\ cOp = "blend_with"
    /\ cBefore.self = <<BoundValue(Property("p", "F32"), Real(4))>>
    /\ cBefore.other = <<BoundValue(Property("p", "I32"), Real(6))>>
    /\ coll_weight = 1
    /\ coll_self = <<BoundValue(Property("p", "F32"), Real(4))>>

\* interpolate of the same collections: the result is empty.
C28_WitnessInterpolate ==
    /\ cOp = "interpolate"
    /\ cBefore.self = <<BoundValue(Property("p", "F32"), Real(4))>>
    /\ cBefore.other = <<BoundValue(Property("p", "I32"), Real(6))>>
    /\ ~cPanicked
    /\ coll_result = <<>>
(***************************************************************************)
(* Further claims about the terrain commands.                              *)
(***************************************************************************)
\* After a call of swap every chunk's live heightmap is the buffer in the
\* command's old slot, and the slots hold the buffers of construction, in
\* each position as they were or exchanged.
LiveIsOldSlot ==
    /\ \A i \in 1..Len(terrain_heightmaps) :
           i <= Len(old_heightmaps) /\ terrain_heightmaps[i] = old_heightmaps[i]
    /\ Len(old_heightmaps) = Len(hBuilt.old)
    /\ Len(new_heightmaps) = Len(hBuilt.new)
    /\ \A i \in 1..Min(Len(old_heightmaps), Len(new_heightmaps)) :
           \/ old_heightmaps[i] = hBuilt.old[i] /\ new_heightmaps[i] = hBuilt.new[i]
           \/ old_heightmaps[i] = hBuilt.new[i] /\ new_heightmaps[i] = hBuilt.old[i]

\* C29: after every call of swap, in any sequence of execute and revert,
\* each chunk's live heightmap equals the buffer in the command's old slot
\* and the two slots hold the buffers of construction, only exchanged; so
\* whenever the old slot holds the old snapshots of construction again, as
\* after two executes, the terrain is at those snapshots.
C29_LiveEqualsOldSlot ==
    hCall # "none" =>
        /\ LiveIsOldSlot
        /\ old_heightmaps = hBuilt.old => terrain_heightmaps = hBuilt.old

\* The same for the commands that hold one old and one new snapshot for
\* every chunk.
C29_WithMatchingCounts ==
    (/\ Len(hBuilt.old) = Len(hBuilt.terrain)
     /\ Len(hBuilt.new) = Len(hBuilt.terrain))
    => C29_LiveEqualsOldSlot

\* execute has returned on a command with two old snapshots and one new
\* one: the second chunk is as it was, which is not what the old slot holds.
C29_ChunkLeftBehind ==
    /\ hCall = "execute"
    /\ hBuilt.terrain = <<<<1, 2>>, <<3, 4>>>>
    /\ hBuilt.old = <<<<1, 2>>, <<9, 9>>>>
    /\ hBuilt.new = <<<<9, 9>>>>
    /\ terrain_heightmaps = <<<<9, 9>>, <<3, 4>>>>
    /\ old_heightmaps = <<<<9, 9>>, <<9, 9>>>>

\* Two executes in a row on a terrain whose heights were not the old
\* snapshots: the terrain is at the old snapshots of construction.
C29_TwoExecutes ==
    /\ hCall = "execute"
    /\ ~hAlternating
    /\ hBuilt.terrain = <<<<3, 4>>>>
    /\ hBuilt.old = <<<<1, 2>>>>
    /\ hBuilt.new = <<<<9, 9>>>>
    /\ terrain_heightmaps = <<<<1, 2>>>>
\* The step is a call of op on command c, returning or not.
IsAnyCall(c, op) ==
    /\ Len(cmds') = Len(cmds)
    /\ c \in 1..Len(cmds)
    /\ lCall' = [cmd |-> c, op |-> op]
    /\ lPrev' = lCall

\* C30: an execute of an AddTerrainLayerCommand right after an execute of
\* it, and a revert of a DeleteTerrainLayerCommand that is not executed
\* (never executed, or reverted since), panic on the command's empty layer
\* slot and leave the terrain's layers as they were.
C30_EmptySlotFailsFirst ==
    [][\A c \in 1..Len(cmds) :
          (\/ /\ IsAnyCall(c, "execute")
              /\ cmds[c].kind = "Add"
              /\ lCall = [cmd |-> c, op |-> "execute"]
           \/ /\ IsAnyCall(c, "revert")
              /\ cmds[c].kind = "Delete"
              /\ lState[c] # "Executed")
          => /\ cmds[c].layer = None
             /\ lPanicked'
             /\ terrain_layers' = terrain_layers
             /\ cmds' = cmds]_vars

\* A second execute in a row of an AddTerrainLayerCommand has panicked; the
\* terrain has the layer the first execute added.
C30_Witness ==
    /\ lPanicked
    /\ lCall.op = "execute"
    /\ lPrev = lCall
    /\ cmds[lCall.cmd].kind = "Add"
    /\ Len(terrain_layers) = Len(lInitial) + 1
    /\ terrain_layers = lBefore

\* A revert of a DeleteTerrainLayerCommand that was executed and reverted
\* has panicked; the terrain has its layers.
C30_WitnessDelete ==
    /\ lPanicked
    /\ lCall.op = "revert"
    /\ cmds[lCall.cmd].kind = "Delete"
    /\ lState[lCall.cmd] = "Reverted"
    /\ Len(terrain_layers) > 0
    /\ terrain_layers = lBefore

\* A revert of a DeleteTerrainLayerCommand that was never executed has
\* panicked.
C30_WitnessNeverExecuted ==
    /\ lPanicked
    /\ lCall.op = "revert"
    /\ cmds[lCall.cmd].kind = "Delete"
    /\ lState[lCall.cmd] = "Created"
    /\ Len(terrain_layers) > 0
    /\ terrain_layers = lBefore
====
